---- MODULE Spec2Model ----
(***************************************************************************)
(* A model of the Kaleidoscope front end: the token contract of            *)
(* src/lexer.rs, the precedence-climbing parser of src/parser.rs, the      *)
(* lowering stage of src/codegen.rs and the execution of the lowered       *)
(* entry function.                                                         *)
(***************************************************************************)
EXTENDS Integers, Sequences, FiniteSets, TLC

VARIABLES lexer, functions, binop_precedence, pstatus, cg, index, mapped, cstatus, run

pvars == <<lexer, functions, binop_precedence, pstatus>>

cvars == <<cg, index, mapped, cstatus>>

vars == <<lexer, functions, binop_precedence, pstatus, cg, index, mapped, cstatus, run>>

(***************************************************************************)
(* f64 values.  A finite double is kept as an exact fraction n/d in lowest *)
(* terms with d > 0; NaN and the infinities are separate kinds.            *)
(***************************************************************************)
RECURSIVE Gcd(_, _)
Gcd(a, b) == IF b = 0 THEN a ELSE Gcd(b, a % b)

Abs(n) == IF n < 0 THEN -n ELSE n

Q(n, d) ==
    LET g == Gcd(Abs(n), d)
    IN  [k |-> "num", n |-> n \div g, d |-> d \div g]

F(n) == [k |-> "num", n |-> n, d |-> 1]

NaN == [k |-> "nan", n |-> 0, d |-> 1]

PosInf == [k |-> "inf", n |-> 1, d |-> 1]

NegInf == [k |-> "inf", n |-> -1, d |-> 1]

I8Max == 127

I8Min == -128

\* Rust's `f64 as i8`: NaN gives 0, the fraction is dropped (toward zero) and
\* the result saturates at the ends of i8.
as_i8(v) ==
    IF v.k = "nan" THEN 0
    ELSE IF v.k = "inf" THEN (IF v.n > 0 THEN I8Max ELSE I8Min)
    ELSE LET t == IF v.n >= 0 THEN v.n \div v.d ELSE -((-v.n) \div v.d)
         IN  IF t > I8Max THEN I8Max ELSE IF t < I8Min THEN I8Min ELSE t

(***************************************************************************)
(* Tokens (src/lexer.rs).  An operator token carries its character.        *)
(***************************************************************************)
OpChars == {"<", ">", "+", "-", "*", "/", "=", "!", "|", "&", "^", "%", "$", "@", "~"}

OpVariant ==
    ("<" :> "Less") @@ (">" :> "Greater") @@ ("+" :> "Plus") @@ ("-" :> "Minus")
    @@ ("*" :> "Star") @@ ("/" :> "Slash") @@ ("=" :> "Assign") @@ ("!" :> "Bang")
    @@ ("|" :> "Pipe") @@ ("&" :> "Ampersand") @@ ("^" :> "Caret")
    @@ ("%" :> "Percent") @@ ("$" :> "Dollar") @@ ("@" :> "At") @@ ("~" :> "Tilde")

OpVariants == {OpVariant[c] : c \in OpChars}

Eof == [t |-> "Eof"]

Def == [t |-> "Def"]

Extern == [t |-> "Extern"]

TIf == [t |-> "If"]

TThen == [t |-> "Then"]

TElse == [t |-> "Else"]

TFor == [t |-> "For"]

TIn == [t |-> "In"]

TVar == [t |-> "Var"]

LParen == [t |-> "LParen", c |-> "("]

RParen == [t |-> "RParen", c |-> ")"]

Comma == [t |-> "Comma", c |-> ","]

Identifier(s) == [t |-> "Identifier", s |-> s]

Number(v) == [t |-> "Number", v |-> v]

Op(c) == [t |-> OpVariant[c], c |-> c]

Binary(c) == [t |-> "Binary", c |-> c]

Unary(c) == [t |-> "Unary", c |-> c]

(***************************************************************************)
(* LexerContext: the token vector and the read position.                   *)
(***************************************************************************)
LexerContext(toks) == [tokens |-> toks, position |-> 0]

peek_token(lx) ==
    IF lx.position < Len(lx.tokens) THEN lx.tokens[lx.position + 1] ELSE Eof

next_token(lx) ==
    IF lx.position < Len(lx.tokens)
    THEN [tok |-> lx.tokens[lx.position + 1],
          lx |-> [lx EXCEPT !.position = lx.position + 1]]
    ELSE [tok |-> Eof, lx |-> lx]

\* std::mem::discriminant compares the variant only, never the payload.
consume_assert_next_token(lx, expected) ==
    LET n == next_token(lx)
    IN  [st |-> IF n.tok.t = expected.t THEN "ok" ELSE "err", tok |-> n.tok, lx |-> n.lx]

consume_opt_next_token(lx, expected) ==
    IF peek_token(lx).t = expected.t THEN next_token(lx).lx ELSE lx

(***************************************************************************)
(* AST (src/ast.rs).  Option<T> is a sequence of length 0 or 1.            *)
(***************************************************************************)
None == <<>>

Some(x) == <<x>>

ENumber(v) == [e |-> "Number", v |-> v]

Variable(s) == [e |-> "Variable", s |-> s]

BinOp(l, op, r) == [e |-> "BinOp", left |-> l, op |-> op, right |-> r]

Call(identifier, args) == [e |-> "Call", identifier |-> identifier, args |-> args]

If(c, t, el) == [e |-> "If", condition |-> c, then |-> t, els |-> el]

For(ident, start, end, step, body) ==
    [e |-> "For", ident |-> ident, start |-> start, end |-> end, step |-> step,
     body |-> body]

UnaryE(op, l) == [e |-> "Unary", op |-> op, left |-> l]

Var(varnames, body) == [e |-> "Var", varnames |-> varnames, body |-> body]

ExprNone == [e |-> "None"]

Function(name, args, body, is_operator, precedence) ==
    [name |-> name, args |-> args, body |-> body, is_operator |-> is_operator,
     precedence |-> precedence]

\* format!("{}{}", prefix, c) for the operator characters.
BinaryName ==
    ("<" :> "binary<") @@ (">" :> "binary>") @@ ("+" :> "binary+") @@ ("-" :> "binary-")
    @@ ("*" :> "binary*") @@ ("/" :> "binary/") @@ ("=" :> "binary=") @@ ("!" :> "binary!")
    @@ ("|" :> "binary|") @@ ("&" :> "binary&") @@ ("^" :> "binary^")
    @@ ("%" :> "binary%") @@ ("$" :> "binary$") @@ ("@" :> "binary@") @@ ("~" :> "binary~")

UnaryName ==
    ("<" :> "unary<") @@ (">" :> "unary>") @@ ("+" :> "unary+") @@ ("-" :> "unary-")
    @@ ("*" :> "unary*") @@ ("/" :> "unary/") @@ ("=" :> "unary=") @@ ("!" :> "unary!")
    @@ ("|" :> "unary|") @@ ("&" :> "unary&") @@ ("^" :> "unary^")
    @@ ("%" :> "unary%") @@ ("$" :> "unary$") @@ ("@" :> "unary@") @@ ("~" :> "unary~")

(***************************************************************************)
(* Sequencing.  Let names a value; Try is Rust's `?`: the rest K runs on    *)
(* an "ok" result, any other result is returned as it is.                  *)
(***************************************************************************)
Let(r, K(_)) == CHOOSE y \in {K(v) : v \in {r}} : TRUE

Try(r, K(_)) == CHOOSE y \in {IF v.st = "ok" THEN K(v) ELSE v : v \in {r}} : TRUE

(***************************************************************************)
(* ParserContext (src/parser.rs).  A parse function returns its status     *)
(* ("ok", "err", or "panic" for a failed assertion), its result and the    *)
(* lexer as it left it.                                                    *)
(***************************************************************************)
\* ParserContext::new: the seven built-in operators.
InitPrecedence ==
    ("=" :> 2) @@ ("<" :> 10) @@ (">" :> 10) @@ ("+" :> 20) @@ ("-" :> 20)
    @@ ("*" :> 40) @@ ("/" :> 40)

DefaultPrecedence == 30

get_precedence(bp, tok) ==
    IF tok.t \in OpVariants
    THEN (IF tok.c \in DOMAIN bp THEN bp[tok.c] ELSE -1)
    ELSE -1

POk(expr, lx) == [st |-> "ok", expr |-> expr, lx |-> lx]

PErr(lx) == [st |-> "err", expr |-> ExprNone, lx |-> lx]

RECURSIVE parse_binop_rhs(_, _, _, _)
RECURSIVE parse_primary(_, _)
RECURSIVE parse_unary(_, _)
RECURSIVE parse_expression(_, _)
RECURSIVE parse_var_pairs(_, _, _)
RECURSIVE parse_call_args(_, _, _)

\* A variant of parse_binop_rhs that also recurses on an equal precedence
\* (right fold).
parse_binop_rhs_right(bp, expr_prec, lhs, lx) ==
    Let(get_precedence(bp, peek_token(lx)), LAMBDA tok_prec :
        IF tok_prec < expr_prec THEN POk(lhs, lx)
        ELSE
        Let(next_token(lx), LAMBDA op :
        Try(parse_unary(bp, op.lx), LAMBDA rhs :
        Try(IF tok_prec <= get_precedence(bp, peek_token(rhs.lx))
            THEN parse_binop_rhs(bp, tok_prec, rhs.expr, rhs.lx)
            ELSE rhs, LAMBDA rhs2 :
        parse_binop_rhs(bp, expr_prec, BinOp(lhs, op.tok, rhs2.expr), rhs2.lx)))))

\* One pass of the loop of parse_binop_rhs; the next pass is the tail call.
parse_binop_rhs(bp, expr_prec, lhs, lx) ==
    Let(get_precedence(bp, peek_token(lx)), LAMBDA tok_prec :
        IF tok_prec < expr_prec THEN POk(lhs, lx)
        ELSE
        Let(next_token(lx), LAMBDA op :
        Try(parse_unary(bp, op.lx), LAMBDA rhs :
        Try(IF tok_prec < get_precedence(bp, peek_token(rhs.lx))
            THEN parse_binop_rhs(bp, tok_prec + 1, rhs.expr, rhs.lx)
            ELSE rhs, LAMBDA rhs2 :
        parse_binop_rhs(bp, expr_prec, BinOp(lhs, op.tok, rhs2.expr), rhs2.lx)))))

\* The `while` loop of the Var arm: one (name, initializer) pair per pass.
parse_var_pairs(bp, pairs, lx) ==
    IF peek_token(lx).t # "Identifier" THEN [st |-> "ok", pairs |-> pairs, lx |-> lx]
    ELSE
    Let(next_token(lx), LAMBDA ident :
    Try(IF peek_token(ident.lx).t = "Assign"
        THEN Try(parse_expression(bp, next_token(ident.lx).lx), LAMBDA e :
                 [st |-> "ok", init |-> Some(e.expr), lx |-> e.lx])
        ELSE [st |-> "ok", init |-> None, lx |-> ident.lx], LAMBDA i :
    IF peek_token(i.lx) # Comma
    THEN [st |-> "ok", pairs |-> Append(pairs, <<ident.tok.s, i.init>>), lx |-> i.lx]
    ELSE parse_var_pairs(bp, Append(pairs, <<ident.tok.s, i.init>>),
                         next_token(i.lx).lx)))

\* The `while` loop over the call arguments after the first.
parse_call_args(bp, args, lx) ==
    IF peek_token(lx).t # "Comma" THEN [st |-> "ok", args |-> args, lx |-> lx]
    ELSE
    Try(consume_assert_next_token(lx, Comma), LAMBDA c :
    IF peek_token(c.lx).t = "RParen" THEN [st |-> "ok", args |-> args, lx |-> c.lx]
    ELSE Try(parse_expression(bp, c.lx), LAMBDA a :
             parse_call_args(bp, Append(args, a.expr), a.lx)))

parse_paren(bp, lx) ==
    Try(consume_assert_next_token(lx, LParen), LAMBDA l :
    Try(parse_expression(bp, l.lx), LAMBDA expr :
    Try(consume_assert_next_token(expr.lx, RParen), LAMBDA r :
    POk(expr.expr, r.lx))))

parse_var(bp, lx) ==
    Try(consume_assert_next_token(lx, TVar), LAMBDA v :
    Try(parse_var_pairs(bp, <<>>, v.lx), LAMBDA ps :
    Try(consume_assert_next_token(ps.lx, TIn), LAMBDA i :
    Try(parse_expression(bp, i.lx), LAMBDA body :
    POk(Var(ps.pairs, body.expr), body.lx)))))

parse_identifier(bp, lx) ==
    Let(next_token(lx), LAMBDA name :
    IF peek_token(name.lx).t # "LParen" THEN POk(Variable(name.tok.s), name.lx)
    ELSE
    Try(consume_assert_next_token(name.lx, LParen), LAMBDA l :
    Try(IF peek_token(l.lx).t = "RParen" THEN [st |-> "ok", args |-> <<>>, lx |-> l.lx]
        ELSE Try(parse_expression(bp, l.lx), LAMBDA first :
                 parse_call_args(bp, <<first.expr>>, first.lx)), LAMBDA as :
    Try(consume_assert_next_token(as.lx, RParen), LAMBDA r :
    POk(Call(name.tok.s, as.args), r.lx)))))

parse_if(bp, lx) ==
    Try(consume_assert_next_token(lx, TIf), LAMBDA i :
    Try(parse_expression(bp, i.lx), LAMBDA condition :
    Try(consume_assert_next_token(condition.lx, TThen), LAMBDA t :
    Try(parse_expression(bp, t.lx), LAMBDA then :
    Try(consume_assert_next_token(then.lx, TElse), LAMBDA e :
    Try(parse_expression(bp, e.lx), LAMBDA els :
    POk(If(condition.expr, then.expr, els.expr), els.lx)))))))

parse_for(bp, lx) ==
    Try(consume_assert_next_token(lx, TFor), LAMBDA f :
    Try(parse_primary(bp, f.lx), LAMBDA ident :
    IF ident.expr.e # "Variable" THEN PErr(ident.lx)
    ELSE
    Try(consume_assert_next_token(ident.lx, Op("=")), LAMBDA a :
    Try(parse_expression(bp, a.lx), LAMBDA start :
    Try(consume_assert_next_token(start.lx, Comma), LAMBDA c :
    Try(parse_expression(bp, c.lx), LAMBDA end :
    Try(IF peek_token(end.lx).t = "Comma"
        THEN Try(parse_expression(bp, next_token(end.lx).lx), LAMBDA s :
                 [st |-> "ok", step |-> Some(s.expr), lx |-> s.lx])
        ELSE [st |-> "ok", step |-> None, lx |-> end.lx], LAMBDA step :
    Try(consume_assert_next_token(step.lx, TIn), LAMBDA i :
    Try(parse_expression(bp, i.lx), LAMBDA body :
    POk(For(ident.expr.s, start.expr, end.expr, step.step, body.expr), body.lx))))))))))

parse_primary(bp, lx) ==
    CASE peek_token(lx).t = "LParen" -> parse_paren(bp, lx)
      [] peek_token(lx).t = "Var" -> parse_var(bp, lx)
      [] peek_token(lx).t = "Number" ->
           POk(ENumber(next_token(lx).tok.v), next_token(lx).lx)
      [] peek_token(lx).t = "Identifier" -> parse_identifier(bp, lx)
      [] peek_token(lx).t = "If" -> parse_if(bp, lx)
      [] peek_token(lx).t = "For" -> parse_for(bp, lx)
      [] OTHER -> PErr(lx)

parse_unary(bp, lx) ==
    IF peek_token(lx).t \in OpVariants
    THEN Try(parse_unary(bp, next_token(lx).lx), LAMBDA left :
             POk(UnaryE(peek_token(lx).c, left.expr), left.lx))
    ELSE parse_primary(bp, lx)

parse_expression(bp, lx) ==
    Try(parse_unary(bp, lx), LAMBDA expr : parse_binop_rhs(bp, 0, expr.expr, expr.lx))

\* What one pass of the top-level loop hands back: the Function, the lexer
\* and the precedence table as the pass left them.
Unit(st, f, lx, bp) == [st |-> st, f |-> f, lx |-> lx, bp |-> bp]

NoFunction == [name |-> "", args |-> <<>>, body |-> ExprNone, is_operator |-> FALSE,
               precedence |-> None]

parse_top_level_expression(bp, lx) ==
    Let(parse_expression(bp, lx), LAMBDA body :
        IF body.st # "ok" THEN Unit(body.st, NoFunction, body.lx, bp)
        ELSE Unit("ok", Function("_top_level_expr", <<>>, body.expr, FALSE, None),
                  body.lx, bp))

\* The argument loop of parse_proto.
RECURSIVE parse_proto_args(_, _)
parse_proto_args(args, lx) ==
    Let(next_token(lx), LAMBDA n :
        CASE n.tok.t = "Identifier" -> parse_proto_args(Append(args, n.tok.s), n.lx)
          [] n.tok.t = "RParen" -> [st |-> "ok", args |-> args, lx |-> n.lx]
          [] OTHER -> [st |-> "err", args |-> args, lx |-> n.lx])

\* The first match of parse_proto: the name, the operator kind and the
\* optional precedence.
parse_proto_name(lx) ==
    Let(next_token(lx), LAMBDA tok :
        CASE tok.tok.t \in {"Binary", "Unary"} ->
               [st |-> "ok", operator_kind |-> Some(tok.tok),
                name |-> IF tok.tok.t = "Binary" THEN BinaryName[tok.tok.c]
                         ELSE UnaryName[tok.tok.c],
                precedence |-> IF peek_token(tok.lx).t = "Number"
                               THEN Some(peek_token(tok.lx).v) ELSE None,
                lx |-> IF peek_token(tok.lx).t = "Number"
                       THEN next_token(tok.lx).lx ELSE tok.lx]
          [] tok.tok.t = "Identifier" ->
               [st |-> "ok", operator_kind |-> None, name |-> tok.tok.s,
                precedence |-> None, lx |-> tok.lx]
          [] OTHER -> [st |-> "err", lx |-> tok.lx])

\* A variant of register_operator without the argument-count assertions.
register_operator_unchecked(bp, name, args) ==
    IF name.operator_kind # None /\ name.operator_kind[1].t = "Binary"
    THEN [st |-> "ok",
          bp |-> (name.operator_kind[1].c :>
                     as_i8(IF name.precedence = None THEN F(DefaultPrecedence)
                           ELSE name.precedence[1])) @@ bp]
    ELSE [st |-> "ok", bp |-> bp]

\* A variant of register_operator that also registers a unary operator.
register_operator_unary(bp, name, args) ==
    IF name.operator_kind = None THEN [st |-> "ok", bp |-> bp]
    ELSE IF Len(args) # (IF name.operator_kind[1].t = "Binary" THEN 2 ELSE 1)
    THEN [st |-> "panic", bp |-> bp]
    ELSE [st |-> "ok",
          bp |-> (name.operator_kind[1].c :>
                     as_i8(IF name.precedence = None THEN F(DefaultPrecedence)
                           ELSE name.precedence[1])) @@ bp]

\* The argument-count assertions and the registration of a binary operator.
\* A failed assert_eq! is a panic: the parse ends without a result.
register_operator(bp, name, args) ==
    CASE name.operator_kind # None /\ name.operator_kind[1].t = "Binary" ->
           IF Len(args) # 2 THEN [st |-> "panic", bp |-> bp]
           ELSE [st |-> "ok",
                 bp |-> (name.operator_kind[1].c :>
                            as_i8(IF name.precedence = None THEN F(DefaultPrecedence)
                                  ELSE name.precedence[1])) @@ bp]
      [] name.operator_kind # None /\ name.operator_kind[1].t = "Unary" ->
           IF Len(args) # 1 THEN [st |-> "panic", bp |-> bp]
           ELSE [st |-> "ok", bp |-> bp]
      [] OTHER -> [st |-> "ok", bp |-> bp]

parse_proto(bp, lx) ==
    Let(parse_proto_name(lx), LAMBDA name :
    IF name.st # "ok" THEN Unit("err", NoFunction, name.lx, bp)
    ELSE
    Let(consume_assert_next_token(name.lx, LParen), LAMBDA l :
    IF l.st # "ok" THEN Unit("err", NoFunction, l.lx, bp)
    ELSE
    Let(parse_proto_args(<<>>, l.lx), LAMBDA args :
    IF args.st # "ok" THEN Unit("err", NoFunction, args.lx, bp)
    ELSE
    Let(register_operator(bp, name, args.args), LAMBDA reg :
    Unit(reg.st,
         Function(name.name, args.args, ExprNone, name.operator_kind # None,
                  name.precedence),
         args.lx, reg.bp)))))

\* A variant of parse_function_definition whose body is parsed under the
\* table from before the prototype.
parse_function_definition_stale(bp, lx) ==
    Try(parse_proto(bp, consume_opt_next_token(lx, Def)), LAMBDA v :
    Let(parse_expression(bp, v.lx), LAMBDA body :
    IF body.st # "ok" THEN Unit(body.st, NoFunction, body.lx, v.bp)
    ELSE Unit("ok", [v.f EXCEPT !.body = body.expr], body.lx, v.bp)))

\* A variant of parse_function_definition that drops the parsed body.
parse_function_definition_bodiless(bp, lx) ==
    Try(parse_proto(bp, consume_opt_next_token(lx, Def)), LAMBDA v :
    Let(parse_expression(v.bp, v.lx), LAMBDA body :
    IF body.st # "ok" THEN Unit(body.st, NoFunction, body.lx, v.bp)
    ELSE Unit("ok", v.f, body.lx, v.bp)))

parse_function_definition(bp, lx) ==
    Try(parse_proto(bp, consume_opt_next_token(lx, Def)), LAMBDA v :
    Let(parse_expression(v.bp, v.lx), LAMBDA body :
    IF body.st # "ok" THEN Unit(body.st, NoFunction, body.lx, v.bp)
    ELSE Unit("ok", [v.f EXCEPT !.body = body.expr], body.lx, v.bp)))

parse_extern(bp, lx) == parse_proto(bp, consume_opt_next_token(lx, Extern))

(***************************************************************************)
(* ParserContext::parse: one action per arm of the top-level loop.         *)
(***************************************************************************)
ParseUnit(r) ==
    /\ lexer' = r.lx
    /\ binop_precedence' = r.bp
    /\ functions' = IF r.st = "ok" THEN Append(functions, r.f) ELSE functions
    /\ pstatus' = IF r.st = "ok" THEN "run" ELSE r.st
    /\ UNCHANGED <<cvars, run>>

ParseDef ==
    /\ pstatus = "run"
    /\ peek_token(lexer).t = "Def"
    /\ ParseUnit(parse_function_definition(binop_precedence, lexer))

ParseExtern ==
    /\ pstatus = "run"
    /\ peek_token(lexer).t = "Extern"
    /\ ParseUnit(parse_extern(binop_precedence, lexer))

ParseTopLevel ==
    /\ pstatus = "run"
    /\ peek_token(lexer).t \notin {"Def", "Extern", "Eof"}
    /\ ParseUnit(parse_top_level_expression(binop_precedence, lexer))

\* A variant of ParseEof that stays in the loop at the end of input.
ParseEof_continue ==
    /\ pstatus = "run"
    /\ peek_token(lexer).t = "Eof"
    /\ pstatus' = "run"
    /\ UNCHANGED <<lexer, functions, binop_precedence, cvars, run>>

ParseEof ==
    /\ pstatus = "run"
    /\ peek_token(lexer).t = "Eof"
    /\ pstatus' = "ok"
    /\ UNCHANGED <<lexer, functions, binop_precedence, cvars, run>>

(***************************************************************************)
(* The IR built through inkwell (src/codegen.rs).  A module maps a         *)
(* function name to its parameter count and its basic blocks; a block is   *)
(* the sequence of instructions appended to it, in order.  Every build_*   *)
(* call is kept as one instruction.                                        *)
(***************************************************************************)
VConst(v) == [k |-> "const", id |-> 0, v |-> v]

VReg(id) == [k |-> "reg", id |-> id, v |-> F(0)]

VParam(i) == [k |-> "param", id |-> i, v |-> F(0)]

Zero == VConst(F(0))

MainEntry == [fn |-> "main", bb |-> 1]

\* CodegenContext::new: `main` with its entry block, the builder at its end.
NewCodegenContext ==
    [module |-> ("main" :> [nparams |-> 0, blocks |-> <<<<>>>>]),
     builder |-> MainEntry,
     vars |-> <<>>,
     next_id |-> 1,
     last_result |-> None]

get_function(c, name) == name \in DOMAIN c.module

\* A build_* call of cg.builder: the instruction goes to the end of the
\* builder's block, whatever the block already holds.
Emit(c, ins) ==
    [c EXCEPT !.module[c.builder.fn].blocks[c.builder.bb] = Append(@, ins)]

EmitValue(c, ins) ==
    [cg |-> [Emit(c, [ins EXCEPT !.id = c.next_id]) EXCEPT !.next_id = c.next_id + 1],
     val |-> VReg(c.next_id)]

append_basic_block(c, fn) ==
    [cg |-> [c EXCEPT !.module[fn].blocks = Append(@, <<>>)],
     bb |-> Len(c.module[fn].blocks) + 1]

position_at_end(c, fn, bb) == [c EXCEPT !.builder = [fn |-> fn, bb |-> bb]]

\* The alloca goes in front of the first instruction of the LAST block of f
\* (get_last_basic_block), or at its end when the block is empty.
create_entryblock_alloc(c, f, name) ==
    LET entry == Len(c.module[f].blocks)
        ins == [op |-> "alloca", id |-> c.next_id, name |-> name]
    IN  [cg |-> [c EXCEPT !.module[f].blocks[entry] = <<ins>> \o @,
                          !.next_id = c.next_id + 1],
         ptr |-> c.next_id]

vars_insert(vs, name, ptr) == (name :> ptr) @@ vs

vars_remove(vs, name) == [n \in (DOMAIN vs) \ {name} |-> vs[n]]

COk(c, val) == [st |-> "ok", cg |-> c, val |-> val]

CFail(st, c) == [st |-> st, cg |-> c, val |-> Zero]

BuiltinOps == {"+", "-", "*", "/", "<", ">"}

BuiltinInstr ==
    ("+" :> "fadd") @@ ("-" :> "fsub") @@ ("*" :> "fmul") @@ ("/" :> "fdiv")
    @@ ("<" :> "fcmp_ult") @@ (">" :> "fcmp_ugt")

RECURSIVE codegen_expr(_, _)
RECURSIVE codegen_varnames(_, _, _, _, _)
RECURSIVE codegen_args(_, _, _, _)

\* A variant of restore_bindings that restores nothing.
restore_bindings_none(vs, old_bindings) == vs

\* The restore loop of the Var arm: the saved bindings are re-inserted in the
\* order they were pushed.
RECURSIVE restore_bindings(_, _)
restore_bindings(vs, old_bindings) ==
    IF old_bindings = <<>> THEN vs
    ELSE restore_bindings(vars_insert(vs, old_bindings[1][1], old_bindings[1][2]),
                          Tail(old_bindings))

build_store(c, ptr, val) == Emit(c, [op |-> "store", ptr |-> ptr, val |-> val])

\* The tail of one pass of the binding loop: the cell, the store, the saved
\* old binding and the new binding.
bind_var(name, init, f, old_bindings) ==
    Let(create_entryblock_alloc(init.cg, f, name), LAMBDA alloc :
        [st |-> "ok",
         cg |-> [build_store(alloc.cg, alloc.ptr, init.val)
                    EXCEPT !.vars = vars_insert(@, name, alloc.ptr)],
         old_bindings |-> IF name \in DOMAIN init.cg.vars
                          THEN Append(old_bindings, <<name, init.cg.vars[name]>>)
                          ELSE old_bindings])

\* The binding loop of the Var arm, from the i-th pair on.
codegen_varnames(varnames, i, c, old_bindings, f) ==
    IF i > Len(varnames) THEN [st |-> "ok", cg |-> c, old_bindings |-> old_bindings]
    ELSE
    Try(IF varnames[i][2] = None THEN COk(c, Zero)
        ELSE codegen_expr(varnames[i][2][1], c), LAMBDA init_val :
    Let(bind_var(varnames[i][1], init_val, f, old_bindings), LAMBDA b :
    codegen_varnames(varnames, i + 1, b.cg, b.old_bindings, f)))

\* The argument loop of the Call arm.
codegen_args(args, i, c, cargs) ==
    IF i > Len(args) THEN [st |-> "ok", cg |-> c, cargs |-> cargs]
    ELSE Try(codegen_expr(args[i], c), LAMBDA val :
             codegen_args(args, i + 1, val.cg, Append(cargs, val.val)))

\* The loop block: the branch into it and the shadowing of the variable.
enter_loop(c, f, ident, alloc) ==
    Let(append_basic_block(c, f), LAMBDA loop_bb :
        [cg |-> [position_at_end(Emit(loop_bb.cg, [op |-> "br", dest |-> loop_bb.bb]),
                                 f, loop_bb.bb)
                    EXCEPT !.vars = vars_insert(@, ident, alloc)],
         loop_bb |-> loop_bb.bb,
         old_val |-> IF ident \in DOMAIN c.vars THEN Some(c.vars[ident]) ELSE None])

\* Reload, increment and store the variable, then the loop condition on the
\* end value already computed.
build_latch(c, alloc, step_val, end_cond_val) ==
    Let(EmitValue(c, [op |-> "load", id |-> 0, ptr |-> alloc]), LAMBDA cur_var :
    Let(EmitValue(cur_var.cg, [op |-> "fadd", id |-> 0, a |-> cur_var.val, b |-> step_val]),
        LAMBDA next_var :
    EmitValue(build_store(next_var.cg, alloc, next_var.val),
              [op |-> "fcmp_one", id |-> 0, a |-> end_cond_val, b |-> Zero])))

\* The after-loop block, the conditional branch and the restored binding.
exit_loop(c, f, ident, loop, end_cond) ==
    Let(append_basic_block(c, f), LAMBDA after_bb :
        [position_at_end(Emit(after_bb.cg, [op |-> "condbr", cond |-> end_cond,
                                            then |-> loop.loop_bb, else |-> after_bb.bb]),
                         f, after_bb.bb)
            EXCEPT !.vars = IF loop.old_val # None
                            THEN vars_insert(@, ident, loop.old_val[1])
                            ELSE vars_remove(@, ident)])

codegen_for(e, c) ==
    Let(create_entryblock_alloc(c, c.builder.fn, e.ident), LAMBDA alloc :
    Try(codegen_expr(e.start, alloc.cg), LAMBDA start_val :
    Let(enter_loop(build_store(start_val.cg, alloc.ptr, start_val.val),
                   start_val.cg.builder.fn, e.ident, alloc.ptr), LAMBDA loop :
    Try(codegen_expr(e.body, loop.cg), LAMBDA body :
    Try(IF e.step = None THEN COk(body.cg, VConst(F(1)))
        ELSE codegen_expr(e.step[1], body.cg), LAMBDA step_val :
    Try(codegen_expr(e.end, step_val.cg), LAMBDA end_cond_val :
    Let(build_latch(end_cond_val.cg, alloc.ptr, step_val.val, end_cond_val.val),
        LAMBDA end_cond :
    COk(exit_loop(end_cond.cg, c.builder.fn, e.ident, loop, end_cond.val), Zero))))))))

codegen_var(e, c) ==
    Try(codegen_varnames(e.varnames, 1, c, <<>>, c.builder.fn), LAMBDA vs :
    Try(codegen_expr(e.body, vs.cg), LAMBDA bval :
    COk([bval.cg EXCEPT !.vars = restore_bindings(@, vs.old_bindings)], bval.val)))

build_call(c, callee, args) ==
    Let(EmitValue(c, [op |-> "call", id |-> 0, callee |-> callee, args |-> args]),
        LAMBDA r : COk(r.cg, r.val))

codegen_unary(e, c) ==
    Try(codegen_expr(e.left, c), LAMBDA operand :
    IF ~get_function(operand.cg, UnaryName[e.op]) THEN CFail("err", operand.cg)
    ELSE build_call(operand.cg, UnaryName[e.op], <<operand.val>>))

\* The comparison of the condition, the three blocks and the branch.
branch_if(c, v) ==
    Let(EmitValue(c, [op |-> "fcmp_one", id |-> 0, a |-> v, b |-> Zero]), LAMBDA condv :
    Let(append_basic_block(condv.cg, c.builder.fn), LAMBDA thenbb :
    Let(append_basic_block(thenbb.cg, c.builder.fn), LAMBDA elsebb :
    Let(append_basic_block(elsebb.cg, c.builder.fn), LAMBDA mergebb :
        [cg |-> Emit(mergebb.cg, [op |-> "condbr", cond |-> condv.val,
                                  then |-> thenbb.bb, else |-> elsebb.bb]),
         f |-> c.builder.fn, thenbb |-> thenbb.bb, elsebb |-> elsebb.bb,
         mergebb |-> mergebb.bb]))))

\* A variant of codegen_branch that reports the block the branch started in.
codegen_branch_created(e, c, blocks, bb) ==
    Try(codegen_expr(e, position_at_end(c, blocks.f, bb)), LAMBDA val :
        [st |-> "ok", cg |-> Emit(val.cg, [op |-> "br", dest |-> blocks.mergebb]),
         val |-> val.val, end_bb |-> bb])

\* A branch of the conditional: lowered in its block, closed by the jump to
\* the merge block; end_bb is the block the builder is in after it.
codegen_branch(e, c, blocks, bb) ==
    Try(codegen_expr(e, position_at_end(c, blocks.f, bb)), LAMBDA val :
        [st |-> "ok", cg |-> Emit(val.cg, [op |-> "br", dest |-> blocks.mergebb]),
         val |-> val.val, end_bb |-> val.cg.builder.bb])

codegen_if(e, c) ==
    Try(codegen_expr(e.condition, c), LAMBDA v :
    Let(branch_if(v.cg, v.val), LAMBDA blocks :
    Try(codegen_branch(e.then, blocks.cg, blocks, blocks.thenbb), LAMBDA then :
    Try(codegen_branch(e.els, then.cg, blocks, blocks.elsebb), LAMBDA els :
    Let(EmitValue(position_at_end(els.cg, blocks.f, blocks.mergebb),
                  [op |-> "phi", id |-> 0,
                   incoming |-> <<<<then.val, then.end_bb>>, <<els.val, els.end_bb>>>>]),
        LAMBDA phi :
    COk(phi.cg, phi.val))))))

\* A variant of codegen_call that rejects a bodiless function outside the
\* native registry.
codegen_call_registered(e, c) ==
    IF ~get_function(c, e.identifier) THEN CFail("err", c)
    ELSE IF c.module[e.identifier].blocks = <<>> /\ e.identifier \notin {"putchard", "printd"}
    THEN CFail("err", c)
    ELSE Try(codegen_args(e.args, 1, c, <<>>), LAMBDA cargs :
             build_call(cargs.cg, e.identifier, cargs.cargs))

codegen_call(e, c) ==
    IF ~get_function(c, e.identifier) THEN CFail("err", c)
    ELSE Try(codegen_args(e.args, 1, c, <<>>), LAMBDA cargs :
             build_call(cargs.cg, e.identifier, cargs.cargs))

codegen_variable(e, c) ==
    IF e.s \notin DOMAIN c.vars THEN CFail("err", c)
    ELSE Let(EmitValue(c, [op |-> "load", id |-> 0, ptr |-> c.vars[e.s]]), LAMBDA r :
             COk(r.cg, r.val))

\* A variant of codegen_assign that lowers the left operand as an expression
\* before the right one.
codegen_assign_loads(e, c) ==
    Try(codegen_expr(e.left, c), LAMBDA lhs :
    Try(codegen_expr(e.right, lhs.cg), LAMBDA val :
    IF e.left.s \notin DOMAIN val.cg.vars THEN CFail("panic", val.cg)
    ELSE COk(build_store(val.cg, val.cg.vars[e.left.s], val.val), val.val)))

\* The special case of `=` with a bare variable on the left; vars.get(s)
\* .cloned().unwrap() panics when s is unbound.
codegen_assign(e, c) ==
    Try(codegen_expr(e.right, c), LAMBDA val :
    IF e.left.s \notin DOMAIN val.cg.vars THEN CFail("panic", val.cg)
    ELSE COk(build_store(val.cg, val.cg.vars[e.left.s], val.val), val.val))

\* The built-in operators; a comparison is widened to 0.0 / 1.0.
build_builtin(c, ch, lhs, rhs) ==
    Let(EmitValue(c, [op |-> BuiltinInstr[ch], id |-> 0, a |-> lhs, b |-> rhs]), LAMBDA r :
        IF ch \in {"<", ">"}
        THEN Let(EmitValue(r.cg, [op |-> "uitofp", id |-> 0, a |-> r.val]), LAMBDA w :
                 COk(w.cg, w.val))
        ELSE COk(r.cg, r.val))

\* A variant of codegen_binop in which a built-in operator is never overridden.
codegen_binop_builtin_first(e, c) ==
    Try(codegen_expr(e.left, c), LAMBDA lhs :
    Try(codegen_expr(e.right, lhs.cg), LAMBDA rhs :
    IF e.op.t = "Assign" \/ e.op.t \notin OpVariants THEN CFail("err", rhs.cg)
    ELSE IF e.op.c \in BuiltinOps THEN build_builtin(rhs.cg, e.op.c, lhs.val, rhs.val)
    ELSE IF get_function(rhs.cg, BinaryName[e.op.c])
    THEN build_call(rhs.cg, BinaryName[e.op.c], <<lhs.val, rhs.val>>)
    ELSE CFail("err", rhs.cg)))

codegen_binop(e, c) ==
    Try(codegen_expr(e.left, c), LAMBDA lhs :
    Try(codegen_expr(e.right, lhs.cg), LAMBDA rhs :
    IF e.op.t = "Assign" \/ e.op.t \notin OpVariants THEN CFail("err", rhs.cg)
    ELSE IF get_function(rhs.cg, BinaryName[e.op.c])
    THEN build_call(rhs.cg, BinaryName[e.op.c], <<lhs.val, rhs.val>>)
    ELSE IF e.op.c \notin BuiltinOps THEN CFail("err", rhs.cg)
    ELSE build_builtin(rhs.cg, e.op.c, lhs.val, rhs.val)))

\* Expr::codegen.
codegen_expr(e, c) ==
    CASE e.e = "For" -> codegen_for(e, c)
      [] e.e = "Var" -> codegen_var(e, c)
      [] e.e = "Unary" -> codegen_unary(e, c)
      [] e.e = "If" -> codegen_if(e, c)
      [] e.e = "Call" -> codegen_call(e, c)
      [] e.e = "Number" -> COk(c, VConst(e.v))
      [] e.e = "Variable" -> codegen_variable(e, c)
      [] e.e = "BinOp" ->
           IF e.op.t = "Assign" /\ e.left.e = "Variable" THEN codegen_assign(e, c)
           ELSE codegen_binop(e, c)
      [] OTHER -> CFail("err", c)

\* The parameter loop of Function::codegen.
RECURSIVE bind_params(_, _, _, _)
bind_params(args, i, c, func) ==
    IF i > Len(args) THEN c
    ELSE Let(create_entryblock_alloc(c, func, args[i]), LAMBDA d :
             bind_params(args, i + 1,
                         [build_store(d.cg, d.ptr, VParam(i))
                             EXCEPT !.vars = vars_insert(@, args[i], d.ptr)],
                         func))

add_function(c, fn) ==
    [c EXCEPT !.module = (fn.name :> [nparams |-> Len(fn.args), blocks |-> <<>>]) @@ @]

\* Function::codegen up to the body: the signature, the entry block, the
\* cleared variable map and the parameters' cells.
function_prologue(fn, c) ==
    Let(append_basic_block(add_function(c, fn), fn.name), LAMBDA entry :
        bind_params(fn.args, 1,
                    [position_at_end(entry.cg, fn.name, entry.bb) EXCEPT !.vars = <<>>],
                    fn.name))

\* A variant of Function::codegen without the check for an existing name.
function_codegen_redefine(fn, c) ==
    IF fn.body = ExprNone THEN COk(add_function(c, fn), Zero)
    ELSE Try(codegen_expr(fn.body, function_prologue(fn, c)), LAMBDA ret_val :
             COk(Emit(ret_val.cg, [op |-> "ret", val |-> ret_val.val]), Zero))

\* Function::codegen.
function_codegen(fn, c) ==
    IF get_function(c, fn.name) THEN COk(c, Zero)
    ELSE IF fn.body = ExprNone THEN COk(add_function(c, fn), Zero)
    ELSE Try(codegen_expr(fn.body, function_prologue(fn, c)), LAMBDA ret_val :
             COk(Emit(ret_val.cg, [op |-> "ret", val |-> ret_val.val]), Zero))

codegen_function(fn, c) ==
    Try(function_codegen(fn, c), LAMBDA r :
        COk(position_at_end(r.cg, MainEntry.fn, MainEntry.bb), Zero))

codegen_top_level_expr(expr, c) ==
    Try(codegen_expr(expr, c), LAMBDA result :
        COk([result.cg EXCEPT !.last_result = Some(result.val)], Zero))

finalize(c) ==
    IF c.last_result # None
    THEN Emit(c, [op |-> "ret", val |-> c.last_result[1]])
    ELSE Emit(position_at_end(c, MainEntry.fn, MainEntry.bb), [op |-> "ret", val |-> Zero])

\* FfiRegistry::new (src/externs.rs).
FfiRegistry == {"putchard", "printd"}

TopLevelName == "_top_level_expr"

\* rposition(|f| f.name == "_top_level_expr"), 0 when there is none.
last_top_level(fs) ==
    LET S == {i \in 1..Len(fs) : fs[i].name = TopLevelName}
    IN  IF S = {} THEN 0 ELSE CHOOSE i \in S : \A j \in S : j <= i

(***************************************************************************)
(* CodegenContext::codegen: one action per pass of the loop over           *)
(* parser.functions, then finalize.                                        *)
(***************************************************************************)
\* A variant of LowerStep that goes on to the next Function after an error.
LowerStep_continue(r) ==
    /\ cg' = r.cg
    /\ cstatus' = "run"
    /\ index' = index + 1

LowerStep(r) ==
    /\ cg' = r.cg
    /\ cstatus' = IF r.st = "ok" THEN "run" ELSE r.st
    /\ index' = IF r.st = "ok" THEN index + 1 ELSE index

LowerTopLevel ==
    /\ pstatus = "ok" /\ cstatus = "run" /\ index <= Len(functions)
    /\ functions[index].name = TopLevelName
    /\ index = last_top_level(functions)
    /\ LowerStep(codegen_top_level_expr(functions[index].body, cg))
    /\ UNCHANGED <<pvars, mapped, run>>

SkipTopLevel ==
    /\ pstatus = "ok" /\ cstatus = "run" /\ index <= Len(functions)
    /\ functions[index].name = TopLevelName
    /\ index # last_top_level(functions)
    /\ index' = index + 1
    /\ UNCHANGED <<pvars, cg, mapped, cstatus, run>>

LowerFunction ==
    /\ pstatus = "ok" /\ cstatus = "run" /\ index <= Len(functions)
    /\ functions[index].name # TopLevelName
    /\ LET r == codegen_function(functions[index], cg)
       IN  /\ LowerStep(r)
           /\ mapped' = IF /\ r.st = "ok"
                           /\ functions[index].body = ExprNone
                           /\ functions[index].name \in FfiRegistry
                        THEN mapped \cup {functions[index].name}
                        ELSE mapped
    /\ UNCHANGED <<pvars, run>>

Finalize ==
    /\ pstatus = "ok" /\ cstatus = "run" /\ index > Len(functions)
    /\ cg' = finalize(cg)
    /\ cstatus' = "ok"
    /\ UNCHANGED <<pvars, index, mapped, run>>

(***************************************************************************)
(* Execution of the lowered module by the backend, started from `main`.    *)
(* Finite doubles are computed exactly; the sign of zero is not kept.      *)
(***************************************************************************)
Undef == [k |-> "undef", n |-> 0, d |-> 1]

I1(b) == [k |-> "i1", n |-> IF b THEN 1 ELSE 0, d |-> 1]

Sign(n) == IF n < 0 THEN -1 ELSE IF n > 0 THEN 1 ELSE 0

\* a < b for values that are not NaN.
Lt(a, b) ==
    CASE a.k = "inf" /\ b.k = "inf" -> a.n < b.n
      [] a.k = "inf" -> a.n < 0
      [] b.k = "inf" -> b.n > 0
      [] OTHER -> a.n * b.d < b.n * a.d

fneg(a) == [a EXCEPT !.n = -a.n]

fadd(a, b) ==
    CASE a.k = "nan" \/ b.k = "nan" -> NaN
      [] a.k = "inf" /\ b.k = "inf" -> IF a.n = b.n THEN a ELSE NaN
      [] a.k = "inf" -> a
      [] b.k = "inf" -> b
      [] OTHER -> Q(a.n * b.d + b.n * a.d, a.d * b.d)

fsub(a, b) == fadd(a, fneg(b))

fmul(a, b) ==
    CASE a.k = "nan" \/ b.k = "nan" -> NaN
      [] a.k = "inf" \/ b.k = "inf" ->
           IF a.n = 0 \/ b.n = 0 THEN NaN
           ELSE IF Sign(a.n) = Sign(b.n) THEN PosInf ELSE NegInf
      [] OTHER -> Q(a.n * b.n, a.d * b.d)

fdiv(a, b) ==
    CASE a.k = "nan" \/ b.k = "nan" -> NaN
      [] a.k = "inf" /\ b.k = "inf" -> NaN
      [] a.k = "inf" -> IF Sign(a.n) * Sign(b.n) < 0 THEN NegInf ELSE PosInf
      [] b.k = "inf" -> F(0)
      [] b.n = 0 -> IF a.n = 0 THEN NaN ELSE IF a.n > 0 THEN PosInf ELSE NegInf
      [] OTHER -> Q(a.n * b.d * Sign(b.n), a.d * Abs(b.n))

\* The float predicates used by the lowering: ONE is ordered (false on NaN),
\* ULT and UGT are unordered (true on NaN).
fcmp(pred, a, b) ==
    LET unordered == a.k = "nan" \/ b.k = "nan"
    IN  CASE pred = "fcmp_one" -> I1(~unordered /\ a # b)
          [] pred = "fcmp_ult" -> I1(unordered \/ Lt(a, b))
          [] pred = "fcmp_ugt" -> I1(unordered \/ Lt(b, a))

ArithOps == {"fadd", "fsub", "fmul", "fdiv"}

CmpOps == {"fcmp_one", "fcmp_ult", "fcmp_ugt"}

arith(op, a, b) ==
    CASE op = "fadd" -> fadd(a, b)
      [] op = "fsub" -> fsub(a, b)
      [] op = "fmul" -> fmul(a, b)
      [] op = "fdiv" -> fdiv(a, b)

\* The value of an operand in a frame; not ok when its definition did not run.
operand(s, v) ==
    CASE v.k = "const" -> [ok |-> TRUE, v |-> v.v]
      [] v.k = "reg" -> IF v.id \in DOMAIN s.regs
                        THEN [ok |-> TRUE, v |-> s.regs[v.id]]
                        ELSE [ok |-> FALSE, v |-> Undef]
      [] v.k = "param" -> IF v.id <= Len(s.args)
                          THEN [ok |-> TRUE, v |-> s.args[v.id]]
                          ELSE [ok |-> FALSE, v |-> Undef]

RECURSIVE operands(_, _)
operands(s, vs) ==
    IF vs = <<>> THEN [ok |-> TRUE, v |-> <<>>]
    ELSE LET h == operand(s, vs[1])
             t == operands(s, Tail(vs))
         IN  [ok |-> h.ok /\ t.ok, v |-> <<h.v>> \o t.v]

Frame(fname, args, ret_to) ==
    [fn |-> fname, bb |-> 1, ip |-> 1, prev |-> 0, regs |-> <<>>, mem |-> <<>>,
     args |-> args, ret_to |-> ret_to]

Halt(st, r, val) == [r EXCEPT !.st = st, !.val = val]

\* One instruction of the innermost frame of the run r.  "ub" is a run whose
\* behaviour the IR does not define: a block without terminator, a use of a
\* value or cell whose definition did not run, a phi without an entry for the
\* predecessor.  "unresolved" is a call of a declaration the backend has no
\* native symbol for.
exec(m, mp, r) ==
    LET top == Len(r.frames)
        s == r.frames[top]
        block == m[s.fn].blocks[s.bb]
    IN  IF r.fuel = 0 THEN Halt("fuel", r, Undef)
        ELSE IF s.ip > Len(block) THEN Halt("ub", r, Undef)
        ELSE
        LET ins == block[s.ip]
            r1 == [r EXCEPT !.fuel = r.fuel - 1, !.frames[top].ip = s.ip + 1]
            set(v) == [r1 EXCEPT !.frames[top].regs = (ins.id :> v) @@ @]
            jump(bb) == [r1 EXCEPT !.frames[top].prev = s.bb, !.frames[top].bb = bb,
                                   !.frames[top].ip = 1]
        IN  CASE ins.op = "alloca" ->
                   [r1 EXCEPT !.frames[top].mem = (ins.id :> Undef) @@ @]
              [] ins.op = "store" ->
                   LET v == operand(s, ins.val)
                   IN  IF ~v.ok \/ ins.ptr \notin DOMAIN s.mem THEN Halt("ub", r1, Undef)
                       ELSE [r1 EXCEPT !.frames[top].mem = (ins.ptr :> v.v) @@ @]
              [] ins.op = "load" ->
                   IF ins.ptr \notin DOMAIN s.mem THEN Halt("ub", r1, Undef)
                   ELSE IF s.mem[ins.ptr] = Undef THEN Halt("ub", r1, Undef)
                   ELSE set(s.mem[ins.ptr])
              [] ins.op \in ArithOps \cup CmpOps ->
                   LET a == operand(s, ins.a)
                       b == operand(s, ins.b)
                   IN  IF ~a.ok \/ ~b.ok THEN Halt("ub", r1, Undef)
                       ELSE set(IF ins.op \in ArithOps THEN arith(ins.op, a.v, b.v)
                                ELSE fcmp(ins.op, a.v, b.v))
              [] ins.op = "uitofp" ->
                   LET a == operand(s, ins.a)
                   IN  IF ~a.ok THEN Halt("ub", r1, Undef) ELSE set(F(a.v.n))
              [] ins.op = "call" ->
                   LET as == operands(s, ins.args)
                   IN  IF ~as.ok \/ Len(as.v) # m[ins.callee].nparams
                       THEN Halt("ub", r1, Undef)
                       ELSE IF m[ins.callee].blocks = <<>>
                       THEN IF ins.callee \in mp
                            THEN [set(F(0)) EXCEPT !.out = Append(@, <<ins.callee, as.v[1]>>)]
                            ELSE Halt("unresolved", r1, Undef)
                       ELSE [r1 EXCEPT !.frames = Append(@, Frame(ins.callee, as.v, ins.id))]
              [] ins.op = "br" -> jump(ins.dest)
              [] ins.op = "condbr" ->
                   LET c == operand(s, ins.cond)
                   IN  IF ~c.ok THEN Halt("ub", r1, Undef)
                       ELSE jump(IF c.v.n = 1 THEN ins.then ELSE ins.else)
              [] ins.op = "phi" ->
                   LET from == {i \in 1..Len(ins.incoming) : ins.incoming[i][2] = s.prev}
                       v == operand(s, ins.incoming[CHOOSE i \in from : TRUE][1])
                   IN  IF from = {} THEN Halt("ub", r1, Undef)
                       ELSE IF ~v.ok THEN Halt("ub", r1, Undef)
                       ELSE set(v.v)
              [] ins.op = "ret" ->
                   LET v == operand(s, ins.val)
                   IN  IF ~v.ok THEN Halt("ub", r1, Undef)
                       ELSE IF top = 1 THEN Halt("ok", [r1 EXCEPT !.frames = <<>>], v.v)
                       ELSE [r1 EXCEPT !.frames =
                                [SubSeq(@, 1, top - 1) EXCEPT
                                    ![top - 1].regs = (s.ret_to :> v.v) @@ @]]

Fuel == 120

NotRun == [st |-> "idle", val |-> Undef, out |-> <<>>, fuel |-> Fuel, frames |-> <<>>]

\* main.rs: the JIT runs `main` once the module is lowered.
Execute ==
    /\ cstatus = "ok" /\ run.st = "idle"
    /\ run' = [run EXCEPT !.st = "running", !.frames = <<Frame("main", <<>>, 0)>>]
    /\ UNCHANGED <<pvars, cvars>>

ExecStep ==
    /\ run.st = "running"
    /\ run' = exec(cg.module, mapped, run)
    /\ UNCHANGED <<pvars, cvars>>

(***************************************************************************)
(* Inputs: token sequences, each ending in the end-of-input token.         *)
(***************************************************************************)
MaxOps == 3

MaxLen == 4

MaxParams == 3

MaxLit == 2

MaxEnd == 5

X == Identifier("x")

Y == Identifier("y")

A == Identifier("a")

B == Identifier("b")

N(n) == Number(F(n))

SeqsUpTo(S, n) == UNION {[1..k -> S] : k \in 0..n}

\* Operator chains  a op a op ... a  with at most MaxOps operators.
ChainOps == {"+", "*", "<", "^"}

RECURSIVE Chain(_)
Chain(ops) == IF ops = <<>> THEN <<A>> ELSE <<A, Op(ops[1])>> \o Chain(Tail(ops))

Chains == {Chain(ops) : ops \in SeqsUpTo(ChainOps, MaxOps)}

\* Precedences a prototype may state: none, an integer, one beyond i8, a fraction.
ProtoPrecs == {<<>>, <<N(5)>>, <<N(20)>>, <<N(200)>>, <<Number(Q(11, 2))>>}

RECURSIVE Params(_)
Params(k) == IF k = 0 THEN <<>> ELSE <<IF k % 2 = 1 THEN A ELSE B>> \o Params(k - 1)

ProtoHeads == {<<Identifier("f")>>, <<Binary("^")>>, <<Binary("+")>>, <<Unary("!")>>}

Protos ==
    {h \o p \o <<LParen>> \o Params(k) \o <<RParen>> :
        h \in ProtoHeads, p \in ProtoPrecs, k \in 0..MaxParams}

DefBodies == {<<A>>, <<A, Op("^"), B>>, <<A, Op("^"), B, Op("+"), A>>}

Tails == {<<>>, <<A, Op("^"), B, Op("*"), A>>, <<Op("!"), A>>}

ProtoPrograms ==
    {<<Def>> \o p \o b \o t \o <<Eof>> : p \in Protos, b \in DefBodies, t \in Tails}
    \cup {<<Extern>> \o p \o t \o <<Eof>> : p \in Protos, t \in Tails}

\* A binary-operator definition followed by a chain that may use the operator.
ChainPrograms ==
    {c \o <<Eof>> : c \in Chains}
    \cup {<<Def, Binary("^")>> \o p \o <<LParen, A, B, RParen, A>> \o c \o <<Eof>> :
            p \in ProtoPrecs, c \in Chains}

\* Every token sequence of at most MaxLen tokens over a small alphabet.
ShortAlphabet == {X, N(1), LParen, RParen, Op("+"), Op("!")}

ShortPrograms == {t \o <<Eof>> : t \in SeqsUpTo(ShortAlphabet, MaxLen)}

\* Scoped constructs, nested one level: var blocks with one or two bindings
\* and loops, over the names x and y.
Names == {X, Y}

Leaves == {<<X>>, <<Y>>, <<N(1)>>}

Inits(S) == {<<>>} \cup {<<Op("=")>> \o e : e \in S}

VarBlocks(I, S) ==
    {<<LParen, TVar, n>> \o i \o <<TIn>> \o b \o <<RParen>> :
        n \in Names, i \in Inits(I), b \in S}
    \cup {<<LParen, TVar, n, Op("="), N(1), Comma, m, Op("="), N(2), TIn>> \o b \o <<RParen>> :
            n \in Names, m \in Names, b \in S \cap Leaves}

Loops(I, S) ==
    {<<LParen, TFor, n, Op("=")>> \o i \o <<Comma, N(0), TIn>> \o b \o <<RParen>> :
        n \in Names, i \in I, b \in S}

Scoped1 == VarBlocks(Leaves, Leaves) \cup Loops(Leaves, Leaves)

Scoped2 ==
    VarBlocks(Leaves, Scoped1) \cup VarBlocks(Scoped1, Leaves)
    \cup Loops(Leaves, Scoped1) \cup Loops(Scoped1, Leaves)

ScopedExprs ==
    Scoped1 \cup Scoped2 \cup {e \o <<Op("+")>> \o l : e \in Scoped1, l \in {<<X>>, <<Y>>}}

ScopedPrograms ==
    {e \o <<Eof>> : e \in ScopedExprs}
    \cup {<<Def, Identifier("f"), LParen, X, RParen>> \o e \o <<Eof>> : e \in ScopedExprs}
    \cup {<<Def, Identifier("f"), LParen, X, RParen, N(1)>> \o e \o <<Eof>> : e \in ScopedExprs}

\* var x = a in (var x = x + b in x) + x
ShadowProgram(a, b) ==
    <<TVar, X, Op("="), N(a), TIn, LParen, TVar, X, Op("="), X, Op("+"), N(b), TIn, X,
      RParen, Op("+"), X, Eof>>

ShadowPrograms == {ShadowProgram(a, b) : a \in 0..MaxLit, b \in 0..MaxLit}

\* extern printd(x)  for i = a, i < b [, s] in printd(i)
LoopProgram(a, b, step) ==
    <<Extern, Identifier("printd"), LParen, X, RParen,
      TFor, Identifier("i"), Op("="), N(a), Comma, Identifier("i"), Op("<"), N(b)>>
    \o step \o <<TIn, Identifier("printd"), LParen, Identifier("i"), RParen, Eof>>

LoopPrograms ==
    {LoopProgram(a, b, s) : a \in 0..MaxLit, b \in 0..MaxEnd,
                            s \in {<<>>, <<Comma, N(1)>>, <<Comma, N(2)>>}}

\* Assignments  lhs = rhs  as the body of  def f(x)  and as a top-level
\* expression.
AssignLhs == {<<X>>, <<Y>>, <<N(1)>>, <<LParen, X, RParen>>, <<X, Op("+"), N(1)>>}

AssignRhs == {<<N(2)>>, <<X>>, <<X, Op("+"), N(1)>>, <<X, Op("="), N(2)>>}

DefF == <<Def, Identifier("f"), LParen, X, RParen>>

AssignPrograms ==
    {h \o l \o <<Op("=")>> \o r \o <<Eof>> :
        h \in {<<>>, DefF}, l \in AssignLhs, r \in AssignRhs}

\* A second declaration of a name the module already holds: f after a def or
\* an extern of f, and main.
FirstDecls == {DefF \o <<N(1)>>, <<Extern, Identifier("f"), LParen, X, RParen>>}

SecondDecls(name) ==
    {<<Def, Identifier(name), LParen, X, Y, RParen, X, Op("+"), Y>>,
     <<Extern, Identifier(name), LParen, X, Y, RParen>>}

RedefPrograms ==
    {d \o s \o t : d \in FirstDecls, s \in SecondDecls("f"), t \in {<<Eof>>, <<N(1), Eof>>}}
    \cup {s \o t : s \in SecondDecls("main"), t \in {<<Eof>>, <<N(1), Eof>>}}

\* def f(x) 1  followed by a top-level reference to a name.
LeakPrograms == {DefF \o <<N(1), n, Eof>> : n \in Names}

\* def g(a b) a op b, alone or after a declaration of binary<c>.
OpDecls ==
    {<<>>, <<Extern, Binary("^"), LParen, A, B, RParen>>}
    \cup {<<Def, Binary(c), LParen, A, B, RParen, A>> : c \in {"+", "<", "^"}}

OpProgram(d, op) ==
    d \o <<Def, Identifier("g"), LParen, A, B, RParen, A, Op(op), B, Eof>>

OpPrograms == {OpProgram(d, op) : d \in OpDecls, op \in {"+", "-", "*", "/", "<", ">", "^"}}

\* A top-level expression, plain or with control flow, alone or followed by a
\* declaration.
TailHeads ==
    {<<N(1)>>,
     <<TIf, N(1), TThen, N(2), TElse, N(3)>>,
     <<TFor, Identifier("i"), Op("="), N(1), Comma, N(0), TIn, N(2)>>}

TailDecls ==
    {<<>>,
     <<Extern, Identifier("g"), LParen, X, RParen>>,
     DefF \o <<N(1)>>}

TailPrograms == {h \o d \o <<Eof>> : h \in TailHeads, d \in TailDecls}

\* def f(x) if x then t else e, with plain and nested branches.
Branches ==
    {<<N(2)>>, <<X>>,
     <<LParen, TVar, Y, Op("="), N(1), TIn, Y, RParen>>,
     <<LParen, TFor, Y, Op("="), N(1), Comma, N(0), TIn, N(2), RParen>>,
     <<LParen, TIf, X, TThen, N(1), TElse, N(2), RParen>>}

NestProgram(t, e) == DefF \o <<TIf, X, TThen>> \o t \o <<TElse>> \o e \o <<Eof>>

NestPrograms == {NestProgram(t, e) : t \in Branches, e \in Branches}

\* A unit whose lowering fails, followed by  extern printd(x).
BadUnits ==
    {<<Y>>, DefF \o <<Y>>, <<Identifier("g"), LParen, RParen>>,
     <<Y, Op("="), N(1)>>, DefF \o <<Y, Op("="), N(1)>>, <<Y, Op("+"), N(1)>>}

ErrPrograms ==
    {b \o <<Extern, Identifier("printd"), LParen, X, RParen, Eof>> : b \in BadUnits}

Inputs ==
    ChainPrograms \cup ProtoPrograms \cup ShortPrograms \cup ScopedPrograms
    \cup ShadowPrograms \cup LoopPrograms \cup AssignPrograms \cup RedefPrograms
    \cup LeakPrograms \cup OpPrograms \cup TailPrograms \cup NestPrograms \cup ErrPrograms

InitWith(S) ==
    /\ lexer \in {LexerContext(t) : t \in S}
    /\ functions = <<>>
    /\ binop_precedence = InitPrecedence
    /\ pstatus = "run"
    /\ cg = NewCodegenContext
    /\ index = 1
    /\ mapped = {}
    /\ cstatus = "run"
    /\ run = NotRun

Init == InitWith(Inputs)

Next ==
    \/ ParseDef
    \/ ParseExtern
    \/ ParseTopLevel
    \/ ParseEof
    \/ LowerTopLevel
    \/ SkipTopLevel
    \/ LowerFunction
    \/ Finalize

NextRun ==
    \/ Next
    \/ Execute
    \/ ExecStep

Spec == Init /\ [][Next]_vars

\* ParserContext::parse alone.  The loop is sequential code: a pass that can
\* run does run.
NextParse ==
    \/ ParseDef
    \/ ParseExtern
    \/ ParseTopLevel
    \/ ParseEof

SpecParse == Init /\ [][NextParse]_vars /\ WF_vars(NextParse)

\* def f(x) x + a   f(b) a   f(b): a call of a defined function, and a unit with
\* two top-level expressions.
CallProgram(a, b) ==
    <<Def, Identifier("f"), LParen, X, RParen, X, Op("+"), N(a),
      Identifier("f"), LParen, N(b), RParen, N(a), Identifier("f"), LParen, N(b), RParen,
      Eof>>

CallPrograms == {CallProgram(a, b) : a \in 0..MaxLit, b \in 0..MaxLit}

\* if c then 1 else 2, for c a number or a quotient of two numbers (0/0 is NaN).
Conds ==
    {<<N(k)>> : k \in 0..MaxLit}
    \cup {<<N(a), Op("/"), N(b)>> : a \in 0..MaxLit, b \in 0..MaxLit}

IfProgram(c) == <<TIf>> \o c \o <<TThen, N(1), TElse, N(2), Eof>>

IfPrograms == {IfProgram(c) : c \in Conds}

\* extern name(x)  name(k), for a name of the native registry and one outside it.
ExternNames == {"printd", "g"}

ExternProgram(name, k) ==
    <<Extern, Identifier(name), LParen, X, RParen, Identifier(name), LParen, N(k), RParen, Eof>>

ExternPrograms == {ExternProgram(n, k) : n \in ExternNames, k \in 0..MaxLit}

\* extern printd(x)  printd(a)  printd(b): two top-level expressions.
PrintProgram(a, b) ==
    <<Extern, Identifier("printd"), LParen, X, RParen,
      Identifier("printd"), LParen, N(a), RParen,
      Identifier("printd"), LParen, N(b), RParen, Eof>>

PrintPrograms == {PrintProgram(a, b) : a \in 0..MaxLit, b \in 0..MaxLit}

RunInputs ==
    ShadowPrograms \cup LoopPrograms \cup CallPrograms \cup IfPrograms \cup ExternPrograms
    \cup PrintPrograms

InitRun == InitWith(RunInputs)

SpecRun == InitRun /\ [][NextRun]_vars
(***************************************************************************)
(* Properties of the parser.                                               *)
(***************************************************************************)
TokAt(toks, i) == IF i \in 1..Len(toks) THEN toks[i] ELSE Eof

\* A number, or an identifier that is not the callee of a call.
IsAtomAt(toks, i) ==
    \/ TokAt(toks, i).t = "Number"
    \/ TokAt(toks, i).t = "Identifier" /\ TokAt(toks, i + 1).t # "LParen"

IsInfixAt(toks, i, bp) ==
    TokAt(toks, i).t \in OpVariants /\ TokAt(toks, i).c \in DOMAIN bp

Atom(tok) == IF tok.t = "Number" THEN ENumber(tok.v) ELSE Variable(tok.s)

\* The index of the last token of the sequence  x0 op1 x1 op2 x2 ...  of atoms
\* and operators of the table bp that starts with the atom at index i; 0 when
\* an operator of the table is followed by something other than an atom.
RECURSIVE ChainEnd(_, _, _)
ChainEnd(toks, i, bp) ==
    IF ~IsInfixAt(toks, i + 1, bp) THEN i
    ELSE IF IsAtomAt(toks, i + 2) THEN ChainEnd(toks, i + 2, bp)
    ELSE 0

\* The tree of the sequence toks[lo..hi]: its root is the rightmost operator
\* of least precedence, so that a tighter operator groups before its left
\* neighbour and equal precedences fold left.
RECURSIVE GroupTree(_, _, _, _)
GroupTree(toks, lo, hi, bp) ==
    IF lo >= hi THEN Atom(toks[lo])
    ELSE LET ops == {k \in lo..hi : (k - lo) % 2 = 1}
             root == CHOOSE k \in ops : \A j \in ops :
                         \/ bp[toks[k].c] < bp[toks[j].c]
                         \/ bp[toks[k].c] = bp[toks[j].c] /\ j <= k
         IN  BinOp(GroupTree(toks, lo, root - 1, bp), toks[root],
                   GroupTree(toks, root + 1, hi, bp))

LastFunction(fs) == fs[Len(fs)]

\* C1: a top-level expression that is a sequence of atoms separated by
\* operators of the precedence table parses, consumes exactly that sequence,
\* and yields the tree in which a tighter operator groups before its left
\* neighbour and operators of equal precedence fold left.
C1_Step ==
    (/\ ParseTopLevel
     /\ IsAtomAt(lexer.tokens, lexer.position + 1)
     /\ ChainEnd(lexer.tokens, lexer.position + 1, binop_precedence) # 0)
    => /\ pstatus' = "run"
       /\ lexer'.position = ChainEnd(lexer.tokens, lexer.position + 1, binop_precedence)
       /\ LastFunction(functions').body =
            GroupTree(lexer.tokens, lexer.position + 1,
                      ChainEnd(lexer.tokens, lexer.position + 1, binop_precedence),
                      binop_precedence)

C1_PrecedenceGrouping == [][C1_Step]_vars

\* a * a + a * a has been parsed as (a * a) + (a * a).
C1_Witness ==
    \E i \in 1..Len(functions) :
        /\ functions[i].name = "_top_level_expr"
        /\ functions[i].body =
             BinOp(BinOp(Variable("a"), Op("*"), Variable("a")), Op("+"),
                   BinOp(Variable("a"), Op("*"), Variable("a")))

\* The prototype of an operator whose `binary<c>` / `unary<c>` token is at
\* index i: the index of its opening parenthesis, the number of its
\* parameters and the precedence it states.
ArgsAt(toks, i) == IF TokAt(toks, i + 1).t = "Number" THEN i + 2 ELSE i + 1

RECURSIVE CountParams(_, _)
CountParams(toks, j) ==
    IF TokAt(toks, j).t = "Identifier" THEN 1 + CountParams(toks, j + 1) ELSE 0

IsOperatorProtoAt(toks, i) ==
    /\ TokAt(toks, i).t \in {"Binary", "Unary"}
    /\ TokAt(toks, ArgsAt(toks, i)).t = "LParen"
    /\ TokAt(toks, ArgsAt(toks, i) + 1 + CountParams(toks, ArgsAt(toks, i) + 1)).t = "RParen"

ProtoParams(toks, i) == CountParams(toks, ArgsAt(toks, i) + 1)

BodyAt(toks, i) == ArgsAt(toks, i) + ProtoParams(toks, i) + 2

StatedPrecedence(toks, i) ==
    IF TokAt(toks, i + 1).t = "Number" THEN TokAt(toks, i + 1).v ELSE F(DefaultPrecedence)

IsBinaryProtoStep ==
    /\ ParseDef \/ ParseExtern
    /\ IsOperatorProtoAt(lexer.tokens, lexer.position + 2)
    /\ TokAt(lexer.tokens, lexer.position + 2).t = "Binary"
    /\ ProtoParams(lexer.tokens, lexer.position + 2) = 2

\* The body of the definition is a sequence of atoms and operators of the
\* table bp.
IsChainBody(bp) ==
    /\ IsAtomAt(lexer.tokens, BodyAt(lexer.tokens, lexer.position + 2))
    /\ ChainEnd(lexer.tokens, BodyAt(lexer.tokens, lexer.position + 2), bp) # 0

\* The body of an accepted definition is parsed under the table bp.
BodySees(bp) ==
    (ParseDef /\ IsChainBody(bp))
    => /\ pstatus' = "run"
       /\ lexer'.position = ChainEnd(lexer.tokens, BodyAt(lexer.tokens, lexer.position + 2), bp)
       /\ LastFunction(functions').body =
            GroupTree(lexer.tokens, BodyAt(lexer.tokens, lexer.position + 2),
                      ChainEnd(lexer.tokens, BodyAt(lexer.tokens, lexer.position + 2), bp),
                      bp)

\* C2, as stated: an accepted prototype `binary<c> [p]` with two parameters
\* maps c to p itself (30 when p is omitted) before the body is parsed.
C2_StatedStep ==
    IsBinaryProtoStep
    => /\ DOMAIN binop_precedence' =
            DOMAIN binop_precedence \cup {TokAt(lexer.tokens, lexer.position + 2).c}
       /\ F(binop_precedence'[TokAt(lexer.tokens, lexer.position + 2).c]) =
            StatedPrecedence(lexer.tokens, lexer.position + 2)

C2_MapsToStated == [][C2_StatedStep]_vars

\* C2: an accepted prototype `binary<c> [p]` with two parameters maps c to p
\* converted to i8 (the fraction dropped, saturated at -128 and 127; 30 when p
\* is omitted), replacing any entry for c and leaving the others; the body of
\* that same definition is parsed under the new table, and no other step of
\* the parse changes the table.
C2_Step ==
    /\ IsBinaryProtoStep
       => /\ binop_precedence' =
               (TokAt(lexer.tokens, lexer.position + 2).c :>
                   as_i8(StatedPrecedence(lexer.tokens, lexer.position + 2)))
               @@ binop_precedence
          /\ BodySees(binop_precedence')
    /\ ParseTopLevel => binop_precedence' = binop_precedence

C2_MapsToConverted == [][C2_Step]_vars

\* `def binary^ 200 (a b) a ^ b + a` is accepted: ^ is in the table at 127 and
\* the body is (a ^ b) + a.
C2_Witness ==
    /\ TokAt(lexer.tokens, 3) = N(200)
    /\ "^" \in DOMAIN binop_precedence
    /\ binop_precedence["^"] = I8Max
    /\ functions # <<>>
    /\ functions[1].name = "binary^"
    /\ functions[1].body =
         BinOp(BinOp(Variable("a"), Op("^"), Variable("b")), Op("+"), Variable("a"))

\* An operator character without an entry in the table follows an operand.
UnknownInfix(toks, bp) ==
    \E i \in 1..Len(toks) :
        /\ IsAtomAt(toks, i)
        /\ TokAt(toks, i + 1).t \in OpVariants
        /\ TokAt(toks, i + 1).c \notin DOMAIN bp

\* C3: as stated, the parse never returns Ok for an input in which an
\* operator character without an entry in the precedence table follows a
\* complete operand.
C3_UnknownOperatorIsError ==
    pstatus = "ok" => ~UnknownInfix(lexer.tokens, binop_precedence)

OperatorArity(f) == IF f.name \in {BinaryName[c] : c \in DOMAIN BinaryName} THEN 2 ELSE 1

\* C4: every Function the parser holds for a `binary<c>` prototype has 2
\* parameters and every one for a `unary<c>` prototype has 1; a prototype
\* with any other parameter count ends the parse in failure, adds no
\* Function and leaves the precedence table as it was.
C4_Step ==
    /\ \A i \in 1..Len(functions') :
          functions'[i].is_operator =>
              Len(functions'[i].args) = OperatorArity(functions'[i])
    /\ (/\ ParseDef \/ ParseExtern
        /\ IsOperatorProtoAt(lexer.tokens, lexer.position + 2)
        /\ ProtoParams(lexer.tokens, lexer.position + 2) #
             (IF TokAt(lexer.tokens, lexer.position + 2).t = "Binary" THEN 2 ELSE 1))
       => /\ pstatus' \in {"err", "panic"}
          /\ functions' = functions
          /\ binop_precedence' = binop_precedence

C4_OperatorArity == [][C4_Step]_vars

\* `def binary^ 5 (a b a) ...` has ended the parse and ^ is not in the table.
C4_Witness ==
    /\ pstatus = "panic"
    /\ TokAt(lexer.tokens, 2) = Binary("^")
    /\ ProtoParams(lexer.tokens, 2) = 3
    /\ binop_precedence = InitPrecedence

(***************************************************************************)
(* Properties of the lowering.                                             *)
(***************************************************************************)
DeclaredNames(e) == {e.varnames[i][1] : i \in 1..Len(e.varnames)}

\* The last top-level expression is a construct of the given kind and is
\* lowered successfully by this step.
LowersTopLevel(kind) ==
    /\ LowerTopLevel
    /\ functions[index].body.e = kind
    /\ cstatus' = "run"

\* C5: as stated, after a var block has been lowered the names it declared
\* that had no binding before it are absent from the variable map, and a
\* reference to such a name after the block is an unknown-variable error.
C5_StatedStep ==
    /\ LowersTopLevel("Var")
       => \A n \in DeclaredNames(functions[index].body) :
              n \notin DOMAIN cg.vars => n \notin DOMAIN cg'.vars
    /\ (/\ LowerTopLevel
        /\ functions[index].body.e = "BinOp"
        /\ functions[index].body.left.e = "Var"
        /\ functions[index].body.right.e = "Variable"
        /\ functions[index].body.right.s \in DeclaredNames(functions[index].body.left)
        /\ functions[index].body.right.s \notin DOMAIN cg.vars)
       => cstatus' = "err"

C5_BlockNamesRemoved == [][C5_StatedStep]_vars

\* C6: as stated, after a var block has been lowered every name it declared
\* that was bound before it maps to the cell it had before the block.
C6_StatedStep ==
    LowersTopLevel("Var")
    => \A n \in DeclaredNames(functions[index].body) :
           n \in DOMAIN cg.vars => /\ n \in DOMAIN cg'.vars
                                   /\ cg'.vars[n] = cg.vars[n]

C6_ShadowedRestored == [][C6_StatedStep]_vars

\* C7: as stated, after a loop has been lowered the variable map equals the
\* map from before the loop.
C7_StatedStep == LowersTopLevel("For") => cg'.vars = cg.vars

C7_LoopRestoresMap == [][C7_StatedStep]_vars

(***************************************************************************)
(* Properties of the lowered code when it is run.                          *)
(***************************************************************************)
\* C8: `var x = a in (var x = x + b in x) + x` parses, lowers and runs
\* without fault, and evaluates to (a + b) + a: the inner initializer reads
\* the outer cell, and the reference after the inner block reads the outer
\* cell again.  For a = b = 1 the value is 3.
C8_ShadowedInitializer ==
    \A a, b \in 0..MaxLit :
        lexer.tokens = ShadowProgram(a, b)
        => /\ pstatus \in {"run", "ok"}
           /\ cstatus \in {"run", "ok"}
           /\ run.st \in {"idle", "running", "ok"}
           /\ run.st = "ok" => run.val = F((a + b) + a)

\* `var x = 1 in (var x = x + 1 in x) + x` has run and its value is 3.
C8_Witness ==
    /\ lexer.tokens = ShadowProgram(1, 1)
    /\ run.st = "ok"
    /\ run.val = F(3)

Printed(vals) == [i \in 1..Len(vals) |-> <<"printd", F(vals[i])>>]

\* The values a, a + s, a + 2s, ... below b.
RECURSIVE Below(_, _, _)
Below(a, b, s) == IF a < b THEN <<a>> \o Below(a + s, b, s) ELSE <<>>

StepOf(step) == IF step = <<>> THEN 1 ELSE step[2].v.n

LoopSteps == {<<>>, <<Comma, N(1)>>, <<Comma, N(2)>>}

\* C9: as stated, the end condition reads the incremented variable, so
\* `for i = a, i < b, s in printd(i)` with a < b runs its body for
\* i = a, a + s, ... while i < b: four times for a = 1, b = 5, s = 1.
C9_EndReadsIncremented ==
    \A a \in 0..MaxLit, b \in 0..MaxEnd, s \in LoopSteps :
        (/\ lexer.tokens = LoopProgram(a, b, s)
         /\ a < b
         /\ run.st = "ok")
        => run.out = Printed(Below(a, b, StepOf(s)))

\* C10: as stated, the value of the loop is 0.0 and a loop whose end
\* condition is false for the start value does not run its body.
C10_ZeroIterations ==
    \A a \in 0..MaxLit, b \in 0..MaxEnd, s \in LoopSteps :
        (/\ lexer.tokens = LoopProgram(a, b, s)
         /\ run.st = "ok")
        => /\ run.val = F(0)
           /\ ~(a < b) => run.out = <<>>

(***************************************************************************)
(* Properties of the lowered instructions.                                 *)
(***************************************************************************)
\* The step lowers a definition with a body under a name new to the module.
LowersDefinition ==
    /\ LowerFunction
    /\ functions[index].body # ExprNone
    /\ functions[index].name \notin DOMAIN cg.module

\* The instructions of the body of the definition lowered by the step: the
\* single block of the function, after the cells and stores of its parameters.
BodyInstrs ==
    SubSeq(cg'.module[functions[index].name].blocks[1],
           2 * Len(functions[index].args) + 1,
           Len(cg'.module[functions[index].name].blocks[1]))

\* The cell the parameter s was given: the result of its alloca.
CellOf(s) ==
    LET blk == cg'.module[functions[index].name].blocks[1]
    IN  blk[CHOOSE i \in 1..Len(blk) : blk[i].op = "alloca" /\ blk[i].name = s].id

CountOp(instrs, op) == Cardinality({i \in 1..Len(instrs) : instrs[i].op = op})

\* An expression over numbers, parameters and +, and its variable references.
RECURSIVE IsPlain(_, _)
IsPlain(e, bound) ==
    CASE e.e = "Number" -> TRUE
      [] e.e = "Variable" -> e.s \in bound
      [] e.e = "BinOp" -> e.op.t = "Plus" /\ IsPlain(e.left, bound) /\ IsPlain(e.right, bound)
      [] OTHER -> FALSE

RECURSIVE CountRefs(_)
CountRefs(e) ==
    CASE e.e = "Variable" -> 1
      [] e.e = "BinOp" -> CountRefs(e.left) + CountRefs(e.right)
      [] OTHER -> 0

Range(f) == {f[i] : i \in DOMAIN f}

IsAssignTo(e, bound) ==
    /\ e.e = "BinOp"
    /\ e.op.t = "Assign"
    /\ e.left.e = "Variable"
    /\ e.left.s \in bound
    /\ IsPlain(e.right, bound)

\* The value of the instructions of a plain expression e: the constant, or
\* the result of the last instruction.
ValueOf(e, instrs) ==
    IF e.e = "Number" THEN VConst(e.v) ELSE VReg(instrs[Len(instrs)].id)

\* C11: lowering `s = rhs` as the body of a definition with s a parameter
\* emits the instructions of rhs (one load per variable reference of rhs,
\* none for s itself), then one store of the value of rhs into the cell of s,
\* and returns that value; the variable map still maps the parameters to
\* their cells.
C11_Step ==
    (LowersDefinition /\ IsAssignTo(functions[index].body, Range(functions[index].args)))
    => /\ cstatus' = "run"
       /\ CountOp(BodyInstrs, "load") = CountRefs(functions[index].body.right)
       /\ CountOp(BodyInstrs, "store") = 1
       /\ Len(BodyInstrs) >= 2
       /\ BodyInstrs[Len(BodyInstrs) - 1] =
            [op |-> "store", ptr |-> CellOf(functions[index].body.left.s),
             val |-> ValueOf(functions[index].body.right,
                             SubSeq(BodyInstrs, 1, Len(BodyInstrs) - 2))]
       /\ BodyInstrs[Len(BodyInstrs)] =
            [op |-> "ret", val |-> BodyInstrs[Len(BodyInstrs) - 1].val]
       /\ cg'.vars = [s \in Range(functions[index].args) |-> CellOf(s)]

C11_AssignmentStores == [][C11_Step]_vars

\* `def f(x) x = x + 1` has been lowered: load, add, store, return.
C11_Witness ==
    /\ lexer.tokens = DefF \o <<X, Op("="), X, Op("+"), N(1), Eof>>
    /\ "f" \in DOMAIN cg.module
    /\ CountOp(cg.module["f"].blocks[1], "load") = 1
    /\ CountOp(cg.module["f"].blocks[1], "store") = 2
    /\ CountOp(cg.module["f"].blocks[1], "fadd") = 1

\* The condition c, a number or a quotient a / b, is the number zero.
CondIsZero(c) ==
    IF Len(c) = 1 THEN c[1].v.n = 0 ELSE c[1].v.n = 0 /\ c[3].v.n # 0

\* C12: as stated, `if c then 1 else 2` evaluates to 2 when c is 0.0 and to 1
\* for every other condition value, NaN (0.0/0.0) included.
C12_TruthTest ==
    \A c \in Conds :
        (lexer.tokens = IfProgram(c) /\ run.st = "ok")
        => run.val = IF CondIsZero(c) THEN F(2) ELSE F(1)

\* The name is declared by a bodiless extern earlier in the unit.
DeclaredExtern(name) ==
    \E j \in 1..(index - 1) : functions[j].name = name /\ functions[j].body = ExprNone

AllNumbers(args) == \A i \in 1..Len(args) : args[i].e = "Number"

LastInstr(c) ==
    c.module[c.builder.fn].blocks[c.builder.bb][Len(c.module[c.builder.fn].blocks[c.builder.bb])]

\* C13: lowering a top-level call, with number arguments, of a name that an
\* earlier bodiless extern declared succeeds and emits the call, whether or
\* not the native registry holds the name.
C13_Step ==
    (/\ LowerTopLevel
     /\ functions[index].body.e = "Call"
     /\ DeclaredExtern(functions[index].body.identifier)
     /\ AllNumbers(functions[index].body.args))
    => /\ cstatus' = "run"
       /\ LastInstr(cg').op = "call"
       /\ LastInstr(cg').callee = functions[index].body.identifier
       /\ cg'.last_result = Some(VReg(LastInstr(cg').id))

C13_ExternCallLowers == [][C13_Step]_vars

\* `extern g(x) g(1)` has been lowered although g is not a native symbol; the
\* run then stops at the unresolved call.
C13_Witness ==
    /\ lexer.tokens = ExternProgram("g", 1)
    /\ "g" \notin FfiRegistry
    /\ cstatus = "ok"
    /\ mapped = {}
    /\ run.st = "unresolved"

\* C14: lowering a Function whose name the module already holds succeeds and
\* changes neither the module (no signature, block or instruction is added,
\* so calls keep resolving to the first declaration), nor the variable map,
\* nor the value kept for main.
C14_Step ==
    (LowerFunction /\ functions[index].name \in DOMAIN cg.module)
    => /\ cstatus' = "run"
       /\ index' = index + 1
       /\ cg'.module = cg.module
       /\ cg'.vars = cg.vars
       /\ cg'.next_id = cg.next_id
       /\ cg'.last_result = cg.last_result

C14_FirstDefinitionWins == [][C14_Step]_vars

\* `def f(x) 1` then `def f(x y) x + y` have both been passed: f still has
\* one parameter and the body of the first definition.
C14_Witness ==
    /\ index = 3
    /\ cstatus = "run"
    /\ functions[1].name = "f" /\ functions[2].name = "f"
    /\ functions[2].body # ExprNone
    /\ cg.module["f"].nparams = 1
    /\ cg.module["f"].blocks[1][Len(cg.module["f"].blocks[1])] =
         [op |-> "ret", val |-> VConst(F(1))]

\* C15: as stated, main evaluates every top-level expression of the unit in
\* source order and returns the value of the last: the unit
\* `extern printd(x) printd(a) printd(b)` prints a, then b, and yields the
\* value of printd(b), 0.0.
C15_EveryTopLevelRuns ==
    \A a, b \in 0..MaxLit :
        (lexer.tokens = PrintProgram(a, b) /\ run.st = "ok")
        => /\ run.out = Printed(<<a, b>>)
           /\ run.val = F(0)

\* C16: as stated, when the lowering of a top-level expression begins the
\* variable map holds no binding made while lowering a function, so a
\* top-level expression that is a bare name fails as an unknown variable.
C16_Step ==
    LowerTopLevel
    => /\ DOMAIN cg.vars = {}
       /\ functions[index].body.e = "Variable" => cstatus' = "err"

C16_ScopesDoNotCross == [][C16_Step]_vars

(***************************************************************************)
(* Properties of the parsed functions.                                     *)
(***************************************************************************)
\* The direct subexpressions of an expression.
SubExprs(e) ==
    CASE e.e = "BinOp" -> {e.left, e.right}
      [] e.e = "Unary" -> {e.left}
      [] e.e = "Call" -> Range(e.args)
      [] e.e = "If" -> {e.condition, e.then, e.els}
      [] e.e = "For" -> {e.start, e.end, e.body} \cup Range(e.step)
      [] e.e = "Var" -> {e.body} \cup UNION {Range(e.varnames[i][2]) : i \in 1..Len(e.varnames)}
      [] OTHER -> {}

\* Every expression inside e, e included.
RECURSIVE AllExprs(_)
AllExprs(e) == {e} \cup UNION {AllExprs(s) : s \in SubExprs(e)}

IsOddAssign(e) == e.e = "BinOp" /\ e.op.t = "Assign" /\ e.left.e # "Variable"

\* C17: as stated, no Function of an accepted unit contains a binary `=` whose
\* left operand is not a bare variable.
C17_AssignLeftIsVariable ==
    pstatus = "ok" =>
    \A i \in 1..Len(functions) : \A e \in AllExprs(functions[i].body) : ~IsOddAssign(e)

(***************************************************************************)
(* Properties of the lowering of binary operators.                         *)
(***************************************************************************)
\* The instruction of a built-in arithmetic or comparison operator.
InstrOf(c) ==
    CASE c = "+" -> "fadd"
      [] c = "-" -> "fsub"
      [] c = "*" -> "fmul"
      [] c = "/" -> "fdiv"
      [] c = "<" -> "fcmp_ult"
      [] c = ">" -> "fcmp_ugt"

IsParamOp(e, bound) ==
    /\ e.e = "BinOp"
    /\ e.op.t # "Assign"
    /\ e.left.e = "Variable" /\ e.left.s \in bound
    /\ e.right.e = "Variable" /\ e.right.s \in bound

\* The instructions after the two operand loads, for the operator c, the
\* loaded values l and r, and the function names of the module.
OperatorTail(tail, c, l, r, names) ==
    IF BinaryName[c] \in names
    THEN /\ Len(tail) = 2
         /\ tail[1].op = "call"
         /\ tail[1].callee = BinaryName[c]
         /\ tail[1].args = <<l, r>>
         /\ tail[2] = [op |-> "ret", val |-> VReg(tail[1].id)]
    ELSE IF c \in {"+", "-", "*", "/"}
    THEN /\ Len(tail) = 2
         /\ tail[1].op = InstrOf(c)
         /\ tail[1].a = l /\ tail[1].b = r
         /\ tail[2] = [op |-> "ret", val |-> VReg(tail[1].id)]
    ELSE /\ c \in {"<", ">"}
         /\ Len(tail) = 3
         /\ tail[1].op = InstrOf(c)
         /\ tail[1].a = l /\ tail[1].b = r
         /\ tail[2].op = "uitofp"
         /\ tail[2].a = VReg(tail[1].id)
         /\ tail[3] = [op |-> "ret", val |-> VReg(tail[2].id)]

\* C18: lowering `def g(..) p c q`, with p and q parameters and c not `=`,
\* loads p, then q, and then calls `binary<c>` when the module holds a
\* function of that name at that moment (g itself included), also for the
\* built-in characters; otherwise it emits the built-in instruction for
\* + - * / < >, and fails for any other character.
C18_Step ==
    (LowersDefinition /\ IsParamOp(functions[index].body, Range(functions[index].args)))
    => IF BinaryName[functions[index].body.op.c]
            \notin DOMAIN cg.module \cup {functions[index].name}
          /\ functions[index].body.op.c \notin {"+", "-", "*", "/", "<", ">"}
       THEN cstatus' = "err"
       ELSE /\ cstatus' = "run"
            /\ Len(BodyInstrs) >= 4
            /\ BodyInstrs[1].op = "load"
            /\ BodyInstrs[1].ptr = CellOf(functions[index].body.left.s)
            /\ BodyInstrs[2].op = "load"
            /\ BodyInstrs[2].ptr = CellOf(functions[index].body.right.s)
            /\ OperatorTail(SubSeq(BodyInstrs, 3, Len(BodyInstrs)),
                            functions[index].body.op.c,
                            VReg(BodyInstrs[1].id), VReg(BodyInstrs[2].id),
                            DOMAIN cg.module \cup {functions[index].name})

C18_OperatorDispatch == [][C18_Step]_vars

\* `def binary+ (a b) a` then `def g(a b) a + b`: g calls binary+.
C18_Witness ==
    /\ lexer.tokens = OpProgram(<<Def, Binary("+"), LParen, A, B, RParen, A>>, "+")
    /\ "g" \in DOMAIN cg.module
    /\ CountOp(cg.module["g"].blocks[1], "call") = 1
    /\ CountOp(cg.module["g"].blocks[1], "fadd") = 0

(***************************************************************************)
(* Properties of the list of parsed functions.                             *)
(***************************************************************************)
\* `none` is at most the whole body of f, never a part of an expression.
NoneOnlyAsBody(f) ==
    \A e \in AllExprs(f.body) : e = ExprNone => f.body = ExprNone

\* The kind of top-level unit a Function stands for.
UnitKind(f) ==
    IF f.body = ExprNone THEN "Extern"
    ELSE IF f.name = "_top_level_expr" /\ f.args = <<>> THEN "Expr"
    ELSE "Def"

\* The `def` and `extern` keywords of the source, in order.
Keywords == SelectSeq([i \in 1..Len(lexer.tokens) |-> lexer.tokens[i].t],
                      LAMBDA t : t \in {"Def", "Extern"})

\* The kinds of the parsed functions that are not bare expressions, in order.
DeclaredKinds(fs) ==
    SelectSeq([i \in 1..Len(fs) |-> UnitKind(fs[i])], LAMBDA k : k # "Expr")

\* C19: every successful step of parse appends exactly one Function to
\* `functions` and keeps the earlier ones: at `def` one whose body is not
\* `none`, at `extern` one whose body is `none`, at any other token a
\* zero-parameter `_top_level_expr` with a body; `none` is never inside an
\* expression; at end of input the list is left as it is, and its defs and
\* externs are the source's def and extern keywords in order.
C19_Step ==
    pstatus = "run" =>
      /\ pstatus' = "run" =>
           /\ Len(functions') = Len(functions) + 1
           /\ SubSeq(functions', 1, Len(functions)) = functions
           /\ NoneOnlyAsBody(functions'[Len(functions')])
           /\ UnitKind(functions'[Len(functions')])
                = (IF peek_token(lexer).t \in {"Def", "Extern"}
                   THEN peek_token(lexer).t ELSE "Expr")
      /\ pstatus' = "ok" =>
           /\ functions' = functions
           /\ DeclaredKinds(functions) = Keywords

C19_OneFunctionPerUnit == [][C19_Step]_vars

\* An accepted source whose units are a def, an extern and a bare expression.
C19_Witness ==
    /\ pstatus = "ok"
    /\ \E i, j, k \in 1..Len(functions) :
         /\ UnitKind(functions[i]) = "Def"
         /\ UnitKind(functions[j]) = "Extern"
         /\ UnitKind(functions[k]) = "Expr"

(***************************************************************************)
(* Properties of the blocks of `main`.                                     *)
(***************************************************************************)
Terminators == {"br", "condbr", "ret"}

\* A block that ends in a terminator and holds no other one.
WellTerminated(b) ==
    /\ Len(b) >= 1
    /\ b[Len(b)].op \in Terminators
    /\ \A i \in 1..(Len(b) - 1) : b[i].op \notin Terminators

\* C20: as stated, once codegen has returned Ok every block of `main` ends in
\* exactly one terminator and holds nothing after it.
C20_MainBlocksTerminated ==
    cstatus = "ok" =>
      \A b \in 1..Len(cg.module["main"].blocks) :
        WellTerminated(cg.module["main"].blocks[b])

(***************************************************************************)
(* Properties of the storage cells.                                        *)
(***************************************************************************)
\* C21: as stated, every allocation of a storage cell is in the entry block
\* of its function, and in front of every store and load in that block.
C21_AllocsInEntry ==
    \A f \in DOMAIN cg.module :
      \A b \in 1..Len(cg.module[f].blocks) :
        \A i \in 1..Len(cg.module[f].blocks[b]) :
          cg.module[f].blocks[b][i].op = "alloca" =>
            /\ b = 1
            /\ \A j \in 1..(i - 1) : cg.module[f].blocks[b][j].op \notin {"store", "load"}

(***************************************************************************)
(* Properties of the phi of a conditional.                                 *)
(***************************************************************************)
\* The blocks of function f that hold a jump to block m.
JumpsTo(f, m) ==
    {b \in 1..Len(cg.module[f].blocks) :
        \E i \in 1..Len(cg.module[f].blocks[b]) :
            cg.module[f].blocks[b][i] = [op |-> "br", dest |-> m]}

\* The phi instructions of block m of function f.
PhisOf(f, m) ==
    {cg.module[f].blocks[m][i] : i \in {j \in 1..Len(cg.module[f].blocks[m]) :
                                          cg.module[f].blocks[m][j].op = "phi"}}

\* C22: every phi has exactly two incoming pairs, for two different blocks,
\* and these are exactly the blocks that hold a jump to the phi's block: the
\* blocks where lowering of the two branches ended.
C22_PhiIncomingBlocks ==
    \A f \in DOMAIN cg.module :
      \A m \in 1..Len(cg.module[f].blocks) :
        \A phi \in PhisOf(f, m) :
          /\ Len(phi.incoming) = 2
          /\ phi.incoming[1][2] # phi.incoming[2][2]
          /\ {phi.incoming[1][2], phi.incoming[2][2]} = JumpsTo(f, m)

\* A conditional whose then branch holds a loop and whose else branch holds a
\* conditional: the merge block is the third block created, after the then
\* block m - 2 and the else block m - 1, and neither of these is a
\* predecessor of the phi.
C22_Witness ==
    /\ "f" \in DOMAIN cg.module
    /\ \E m \in 3..Len(cg.module["f"].blocks) :
         \E phi \in PhisOf("f", m) :
           /\ phi.incoming[1][2] \notin {m - 2, m - 1}
           /\ phi.incoming[2][2] \notin {m - 2, m - 1}
           /\ phi.incoming[1][2] \in JumpsTo("f", m)

(***************************************************************************)
(* Properties of the failure of a lowering.                                *)
(***************************************************************************)
\* Lowering the Function at the index returns an error.
LoweringFails ==
    /\ pstatus = "ok" /\ cstatus = "run" /\ index <= Len(functions)
    /\ IF functions[index].name = "_top_level_expr"
       THEN /\ index = last_top_level(functions)
            /\ codegen_top_level_expr(functions[index].body, cg).st = "err"
       ELSE codegen_function(functions[index], cg).st = "err"

MainReturns(c) ==
    \E b \in 1..Len(c.module["main"].blocks) :
        CountOp(c.module["main"].blocks[b], "ret") > 0

\* C23: the step that lowers a failing Function ends the pass in the error
\* state, at that Function: no later Function is in the module, no extern is
\* registered by the step and `main` has no return; and nothing changes once
\* the pass has ended in an error.
C23_Step ==
    /\ LoweringFails =>
         /\ cstatus' = "err"
         /\ index' = index
         /\ mapped' = mapped
         /\ DOMAIN cg'.module \subseteq {"main"} \cup {functions[j].name : j \in 1..index}
         /\ ~MainReturns(cg')
    /\ cstatus = "err" => UNCHANGED <<cg, mapped, index, cstatus>>

C23_ErrorStopsPass == [][C23_Step]_vars

\* A failed pass with `extern printd(x)` still ahead and not registered.
C23_Witness ==
    /\ cstatus = "err"
    /\ index < Len(functions)
    /\ functions[Len(functions)].name = "printd"
    /\ "printd" \notin mapped
    /\ "printd" \notin DOMAIN cg.module

(***************************************************************************)
(* Properties of an assignment to an unbound name.                         *)
(***************************************************************************)
\* The top-level expression about to be lowered is `x = number` and x has no
\* binding in the variable map.
AssignsUnbound ==
    /\ pstatus = "ok" /\ cstatus = "run" /\ index <= Len(functions)
    /\ functions[index].name = "_top_level_expr"
    /\ index = last_top_level(functions)
    /\ functions[index].body.e = "BinOp"
    /\ functions[index].body.op.t = "Assign"
    /\ functions[index].body.left.e = "Variable"
    /\ functions[index].body.left.s \notin DOMAIN cg.vars
    /\ functions[index].body.right.e = "Number"

\* C24: as stated, lowering `x = e` with x unbound ends in a returned
\* lowering error.
C24_Step == AssignsUnbound => cstatus' = "err"

C24_UnboundAssignIsError == [][C24_Step]_vars

(***************************************************************************)
(* Properties of the precedence table as a whole.                          *)
(***************************************************************************)
BuiltinCharacters == {"=", "<", ">", "+", "-", "*", "/"}

\* C25: no step removes an entry of the precedence table, the seven built-in
\* characters stay in it, and a step that changes it parses a `binary<c>`
\* prototype with two parameters and changes the entry of c only; a step
\* that parses an expression, a plain prototype or a unary prototype, with
\* or without a number, leaves it as it was.
C25_Step ==
    /\ DOMAIN binop_precedence \subseteq DOMAIN binop_precedence'
    /\ BuiltinCharacters \subseteq DOMAIN binop_precedence'
    /\ binop_precedence' # binop_precedence =>
         /\ IsBinaryProtoStep
         /\ \A c \in DOMAIN binop_precedence' \ {TokAt(lexer.tokens, lexer.position + 2).c} :
              c \in DOMAIN binop_precedence /\ binop_precedence'[c] = binop_precedence[c]
    /\ (ParseTopLevel \/ ((ParseDef \/ ParseExtern)
                            /\ TokAt(lexer.tokens, lexer.position + 2).t # "Binary"))
         => binop_precedence' = binop_precedence

C25_TableChangesOnlyByBinaryProto == [][C25_Step]_vars

\* `unary! 5 (a)` has been accepted and the table is the initial one.
C25_Witness ==
    /\ Len(functions) >= 1
    /\ functions[1].name = UnaryName["!"]
    /\ functions[1].precedence # None
    /\ Len(functions[1].args) = 1
    /\ binop_precedence = InitPrecedence

(***************************************************************************)
(* Termination of the parse.                                               *)
(***************************************************************************)
\* The result r of a sub-parser started at position p stays inside the token
\* vector, never moves back, and has consumed a token when it succeeded.
Advances(r, p) ==
    Let(r, LAMBDA v :
        /\ v.lx.position >= p
        /\ v.lx.position <= Len(v.lx.tokens)
        /\ v.st = "ok" => v.lx.position > p)

\* Every loop of the parser, entered at any position of the token vector that
\* is still ahead.
LoopsAdvance ==
    \A p \in lexer.position..Len(lexer.tokens) :
      Let([lexer EXCEPT !.position = p], LAMBDA lx :
        /\ Advances(parse_expression(binop_precedence, lx), p)
        /\ Advances(parse_proto_args(<<>>, lx), p)
        /\ peek_token(lx).t = "Identifier"
             => Advances(parse_var_pairs(binop_precedence, <<>>, lx), p)
        /\ peek_token(lx).t = "Comma"
             => Advances(parse_call_args(binop_precedence, <<>>, lx), p)
        /\ get_precedence(binop_precedence, peek_token(lx)) >= 0
             => Advances(parse_binop_rhs(binop_precedence, 0, Variable("x"), lx), p))

\* The loops depend on the tokens and the table only, so they are entered
\* before the first unit and again whenever the table differs from the
\* initial one.
C26_Bounded ==
    /\ lexer.position <= Len(lexer.tokens)
    /\ (pstatus = "run" /\ (lexer.position = 0 \/ binop_precedence # InitPrecedence))
         => LoopsAdvance

\* A pass of the top-level loop consumes a token or ends the parse.
C26_Step == pstatus = "run" => (lexer'.position > lexer.position \/ pstatus' # "run")

\* C26: the lexer position never exceeds the number of tokens; every loop of
\* the parser, entered at any position, consumes a token or fails; every
\* pass of the top-level loop consumes a token or ends the parse; and the
\* parse ends.
C26_ParseTerminates ==
    /\ []C26_Bounded
    /\ [][C26_Step]_vars
    /\ <>(pstatus # "run")

\* An accepted source of at least three units, read to its end.
C26_Witness ==
    /\ pstatus = "ok"
    /\ Len(functions) >= 3
    /\ lexer.position = Len(lexer.tokens) - 1
====
